---- MODULE Spec2Model ----
(***************************************************************************)
(* A model of the scheduler's event queue (scheduler/core/eventsqueue/     *)
(* event_queue.py), of the group tree (common/minimodel/group.py), of the  *)
(* default ranker (scheduler/core/components/ranker/default.py) and of the *)
(* OCS program provider (scheduler/core/programprovider/ocs/__init__.py).  *)
(*                                                                         *)
(* Python's Optional[T] is modelled as a sequence of length at most one:   *)
(* <<>> is None and <<x>> is the value x.                                  *)
(***************************************************************************)
EXTENDS Integers, Sequences, FiniteSets, TLC

VARIABLES events, blockage_stack, blockage_end, call, groups, gcall, tcall,
          empty_obs_scores, empty_group_scores, kept, rcall,
          params, band_params, band_params_arg, pcall

vars == <<events, blockage_stack, blockage_end, call, groups, gcall, tcall,
          empty_obs_scores, empty_group_scores, kept, rcall,
          params, band_params, band_params_arg, pcall>>
qvars == <<events, blockage_stack, blockage_end, call>>
gvars == <<groups, gcall>>
rvars == <<empty_obs_scores, empty_group_scores, kept, rcall,
          params, band_params, band_params_arg>>

(***************************************************************************)
(* Bounds of the model.                                                    *)
(***************************************************************************)
\* the most Interruption events held by all the queues together
MaxQueued == 2
\* the most Blockage events on the blockage stack
MaxStack == 2
\* the longest batch handed to add_events
MaxBatch == 3

\* the most Group objects constructed
MaxGroups == 3
\* the longest list of children handed to a Group constructor
MaxChildren == 2

\* the night indices a caller may pass
Nights == {0, 1}
\* the sites a caller may pass
Sites == {"GN", "GS"}
\* the night indices and sites a queue may be constructed with
Constructions == {<<{0}, {"GN"}>>, <<{0}, {"GN", "GS"}>>, <<{0, 1}, {"GN"}>>}
\* the start times a ResumeNight event may carry
Times == {1, 2}
\* the event objects a caller may pass: two Interruptions, two Blockages and
\* one event that is neither (a ResumeNight)
EventObjects ==
    {[kind |-> "Interruption", id |-> 1], [kind |-> "Interruption", id |-> 2],
     [kind |-> "Blockage", id |-> 1], [kind |-> "Blockage", id |-> 2],
     [kind |-> "ResumeNight", id |-> 1]}
\* the batches a caller may pass to add_events: sequences of distinct
\* Interruption and Blockage objects
BatchObjects == {e \in EventObjects : e.kind # "ResumeNight"}
Batches ==
    UNION {{b \in [1..k -> BatchObjects] : \A i, j \in 1..k : i # j => b[i] # b[j]} :
           k \in 0..MaxBatch}

(***************************************************************************)
(* The event variants (scheduler/core/eventsqueue/events.py).              *)
(***************************************************************************)
IsBlockage(event) == event.kind = "Blockage"

IsInterruption(event) == event.kind = "Interruption"

\* Blockage.ends(end): stores the end time on the blockage object.
ends(bend, b, end) == [bend EXCEPT ![b.id] = <<end>>]

(***************************************************************************)
(* EventQueue.  A queue state q is the record of the object's fields:      *)
(* events (night index -> site -> deque), blockage_stack, and the end      *)
(* field of every Blockage object (blockage_end).                          *)
(***************************************************************************)
EventQueue(night_indices, sites) ==
    [events |-> [night_idx \in night_indices |-> [site \in sites |-> <<>>]],
     blockage_stack |-> <<>>]

\* mutant of get_night_events: an empty deque is taken for a missing one
get_night_events_truthy(ev, night_idx, site) ==
    IF night_idx \notin DOMAIN ev
    THEN <<>>
    ELSE IF site \notin DOMAIN ev[night_idx] \/ ev[night_idx][site] = <<>>
         THEN <<>>
         ELSE <<ev[night_idx][site]>>

\* Optional[Deque]: <<>> (None) when the night or the site is not a key.
get_night_events(ev, night_idx, site) ==
    IF night_idx \notin DOMAIN ev
    THEN <<>>
    ELSE IF site \notin DOMAIN ev[night_idx]
         THEN <<>>
         ELSE <<ev[night_idx][site]>>

\* mutants of add_event: every event is pushed onto the blockage stack
add_event_push_any(q, night_idx, site, event) ==
    [q |-> [q EXCEPT !.blockage_stack = Append(@, event)], raised |-> "none"]

\* the Interruption goes to the front of the queue (appendleft)
add_event_appendleft(q, night_idx, site, event) ==
    IF IsBlockage(event)
    THEN [q |-> [q EXCEPT !.blockage_stack = Append(@, event)], raised |-> "none"]
    ELSE IF IsInterruption(event)
         THEN IF get_night_events(q.events, night_idx, site) # <<>>
              THEN [q |-> [q EXCEPT !.events[night_idx][site] = <<event>> \o @],
                    raised |-> "none"]
              ELSE [q |-> q, raised |-> "KeyError"]
         ELSE [q |-> q, raised |-> "none"]

\* an Interruption for a missing queue is dropped without a KeyError
add_event_no_raise(q, night_idx, site, event) ==
    IF IsBlockage(event)
    THEN [q |-> [q EXCEPT !.blockage_stack = Append(@, event)], raised |-> "none"]
    ELSE IF IsInterruption(event) /\ get_night_events(q.events, night_idx, site) # <<>>
         THEN [q |-> [q EXCEPT !.events[night_idx][site] = Append(@, event)],
               raised |-> "none"]
         ELSE [q |-> q, raised |-> "none"]

\* the queue is looked up before the event's variant is matched
add_event_lookup_first(q, night_idx, site, event) ==
    IF get_night_events(q.events, night_idx, site) = <<>>
    THEN [q |-> q, raised |-> "KeyError"]
    ELSE IF IsBlockage(event)
         THEN [q |-> [q EXCEPT !.blockage_stack = Append(@, event)], raised |-> "none"]
         ELSE IF IsInterruption(event)
              THEN [q |-> [q EXCEPT !.events[night_idx][site] = Append(@, event)],
                    raised |-> "none"]
              ELSE [q |-> q, raised |-> "none"]

\* an event that is neither variant is queued like an Interruption
add_event_other_is_queued(q, night_idx, site, event) ==
    IF IsBlockage(event)
    THEN [q |-> [q EXCEPT !.blockage_stack = Append(@, event)], raised |-> "none"]
    ELSE IF get_night_events(q.events, night_idx, site) # <<>>
         THEN [q |-> [q EXCEPT !.events[night_idx][site] = Append(@, event)],
               raised |-> "none"]
         ELSE [q |-> q, raised |-> "KeyError"]

\* the result: the queue state after the call and the exception raised
add_event(q, night_idx, site, event) ==
    IF IsBlockage(event)
    THEN [q |-> [q EXCEPT !.blockage_stack = Append(@, event)], raised |-> "none"]
    ELSE IF IsInterruption(event)
         THEN IF get_night_events(q.events, night_idx, site) # <<>>
              THEN [q |-> [q EXCEPT !.events[night_idx][site] = Append(@, event)],
                    raised |-> "none"]
              ELSE [q |-> q, raised |-> "KeyError"]
         ELSE [q |-> q, raised |-> "none"]

\* mutant of add_events: a failing batch is rolled back
add_events_atomic(q, night_idx, site, evs) ==
    LET k == CHOOSE i \in 1..(Len(evs) + 1) :
                 /\ i <= Len(evs) => IsInterruption(evs[i])
                 /\ \A j \in 1..(i - 1) : ~IsInterruption(evs[j])
        ok == get_night_events(q.events, night_idx, site) # <<>>
    IN  IF ~ok /\ k <= Len(evs)
        THEN [q |-> q, raised |-> "KeyError"]
        ELSE [q |-> [q EXCEPT !.blockage_stack = @ \o SelectSeq(evs, IsBlockage),
                              !.events = IF ok
                                         THEN [@ EXCEPT ![night_idx][site] =
                                                   @ \o SelectSeq(evs, IsInterruption)]
                                         ELSE @],
              raised |-> "none"]

RECURSIVE add_events(_, _, _, _)
add_events(q, night_idx, site, evs) ==
    IF evs = <<>>
    THEN [q |-> q, raised |-> "none"]
    ELSE LET r == add_event(q, night_idx, site, Head(evs))
         IN  IF r.raised # "none"
             THEN r
             ELSE add_events(r.q, night_idx, site, Tail(evs))

\* mutants of check_blockage: the open blockage is read but left on the stack
check_blockage_peek(q, resume_event) ==
    IF q.blockage_stack # <<>> /\ Len(q.blockage_stack) = 1
    THEN LET b == q.blockage_stack[Len(q.blockage_stack)]
         IN  [q |-> [q EXCEPT !.blockage_end = ends(@, b, resume_event.start)],
              raised |-> "none", ret |-> <<b>>]
    ELSE [q |-> q, raised |-> "RuntimeError", ret |-> <<>>]

\* the stack's length is not checked: the top blockage of a longer stack is popped
check_blockage_any(q, resume_event) ==
    IF q.blockage_stack # <<>>
    THEN LET b == q.blockage_stack[Len(q.blockage_stack)]
         IN  [q |-> [q EXCEPT !.blockage_stack = SubSeq(@, 1, Len(@) - 1),
                              !.blockage_end = ends(@, b, resume_event.start)],
              raised |-> "none", ret |-> <<b>>]
    ELSE [q |-> q, raised |-> "RuntimeError", ret |-> <<>>]

\* a stack of several blockages is emptied before the error is raised
check_blockage_clears(q, resume_event) ==
    IF q.blockage_stack # <<>> /\ Len(q.blockage_stack) = 1
    THEN LET b == q.blockage_stack[Len(q.blockage_stack)]
         IN  [q |-> [q EXCEPT !.blockage_stack = SubSeq(@, 1, Len(@) - 1),
                              !.blockage_end = ends(@, b, resume_event.start)],
              raised |-> "none", ret |-> <<b>>]
    ELSE [q |-> [q EXCEPT !.blockage_stack = <<>>],
          raised |-> "RuntimeError", ret |-> <<>>]

\* the result: the queue state after the call, the exception raised and the
\* blockage returned (none when it raises)
check_blockage(q, resume_event) ==
    IF q.blockage_stack # <<>> /\ Len(q.blockage_stack) = 1
    THEN LET b == q.blockage_stack[Len(q.blockage_stack)]
         IN  [q |-> [q EXCEPT !.blockage_stack = SubSeq(@, 1, Len(@) - 1),
                              !.blockage_end = ends(@, b, resume_event.start)],
              raised |-> "none", ret |-> <<b>>]
    ELSE [q |-> q, raised |-> "RuntimeError", ret |-> <<>>]

(***************************************************************************)
(* The state machine: one action per method call.  call records the call   *)
(* that has just returned to the caller: the method, its arguments, the    *)
(* exception it raised and what it returned.  Return is the caller taking  *)
(* the result; the next call starts from there.                            *)
(***************************************************************************)
Self == [events |-> events, blockage_stack |-> blockage_stack,
         blockage_end |-> blockage_end]

RECURSIVE SumLen(_, _)
SumLen(f, S) ==
    IF S = {}
    THEN 0
    ELSE LET x == CHOOSE y \in S : TRUE
         IN  Len(f[x]) + SumLen(f, S \ {x})

Queued(ev) ==
    LET pairs == {p \in Nights \X Sites : get_night_events(ev, p[1], p[2]) # <<>>}
    IN  SumLen([p \in pairs |-> ev[p[1]][p[2]]], pairs)

Bounded(q) == Queued(q.events) <= MaxQueued /\ Len(q.blockage_stack) <= MaxStack

NoCall == [op |-> "init", night |-> 0, site |-> "GN", evs |-> <<>>, start |-> 0,
           raised |-> "none", ret_blockage |-> <<>>, ret_deque |-> <<>>]

\* no Group constructor call has returned
NoGroupCall == [op |-> "init", number_to_observe |-> 0,
                children |-> [obs |-> <<>>, groups |-> <<>>], previous |-> <<>>,
                raised |-> "none", ret |-> <<>>]

\* no method of a constructed Group has been called
NoTreeCall == [op |-> "init", self |-> 0, raised |-> "none",
               ret_list |-> <<>>, ret_set |-> {}]

\* no DefaultRanker method has been called
NoRankerCall == [op |-> "init", program |-> <<>>, obs |-> "", group |-> 0,
                 target_info |-> <<>>, metric |-> <<>>, group_data_map |-> <<>>,
                 completion |-> <<>>, band |-> <<>>, b3min |-> <<>>,
                 thesis |-> FALSE, raised |-> "none", ret |-> <<>>]

\* no method of the OCS program provider has been called
NoProviderCall == [op |-> "init"]

\* no DefaultRanker has been constructed
RankerIdle ==
    /\ empty_obs_scores = <<>>
    /\ empty_group_scores = <<>>
    /\ kept = <<>>
    /\ rcall = NoRankerCall
    /\ params = <<>>
    /\ band_params = <<>>
    /\ band_params_arg = <<>>

Store(q) ==
    /\ events' = q.events
    /\ blockage_stack' = q.blockage_stack
    /\ blockage_end' = q.blockage_end

Init ==
    /\ \E args \in Constructions :
         /\ events = EventQueue(args[1], args[2]).events
         /\ blockage_stack = EventQueue(args[1], args[2]).blockage_stack
    /\ blockage_end = [i \in {1, 2} |-> <<>>]
    /\ call = NoCall
    /\ groups = <<>>
    /\ gcall = NoGroupCall
    /\ tcall = NoTreeCall
    /\ RankerIdle
    /\ pcall = NoProviderCall

AddEvent(night_idx, site, event) ==
    LET r == add_event(Self, night_idx, site, event)
    IN  /\ call = NoCall
        /\ Bounded(r.q)
        /\ Store(r.q)
        /\ call' = [NoCall EXCEPT !.op = "add_event", !.night = night_idx,
                                  !.site = site, !.evs = <<event>>,
                                  !.raised = r.raised]
        /\ UNCHANGED <<gvars, tcall, rvars, pcall>>

AddEvents(night_idx, site, evs) ==
    LET r == add_events(Self, night_idx, site, evs)
    IN  /\ call = NoCall
        /\ Bounded(r.q)
        /\ Store(r.q)
        /\ call' = [NoCall EXCEPT !.op = "add_events", !.night = night_idx,
                                  !.site = site, !.evs = evs,
                                  !.raised = r.raised]
        /\ UNCHANGED <<gvars, tcall, rvars, pcall>>

CheckBlockage(resume_event) ==
    LET r == check_blockage(Self, resume_event)
    IN  /\ call = NoCall
        /\ Store(r.q)
        /\ call' = [NoCall EXCEPT !.op = "check_blockage",
                                  !.start = resume_event.start,
                                  !.raised = r.raised, !.ret_blockage = r.ret]
        /\ UNCHANGED <<gvars, tcall, rvars, pcall>>

GetNightEvents(night_idx, site) ==
    /\ call = NoCall
    /\ UNCHANGED <<events, blockage_stack, blockage_end>>
    /\ call' = [NoCall EXCEPT !.op = "get_night_events", !.night = night_idx,
                              !.site = site,
                              !.ret_deque = get_night_events(events, night_idx, site)]
    /\ UNCHANGED <<gvars, tcall, rvars, pcall>>

Return ==
    /\ call # NoCall
    /\ call' = NoCall
    /\ UNCHANGED <<events, blockage_stack, blockage_end>>
    /\ UNCHANGED <<gvars, tcall, rvars, pcall>>

Next ==
    \/ \E n \in Nights, s \in Sites, e \in EventObjects : AddEvent(n, s, e)
    \/ \E n \in Nights, s \in Sites, evs \in Batches : AddEvents(n, s, evs)
    \/ \E t \in Times : CheckBlockage([kind |-> "ResumeNight", start |-> t])
    \/ \E n \in Nights, s \in Sites : GetNightEvents(n, s)
    \/ Return

Spec == Init /\ [][Next]_vars

(***************************************************************************)
(* Properties of the event queue.                                          *)
(***************************************************************************)
\* the (night, site) pair was registered at construction
Registered(ev, night_idx, site) ==
    night_idx \in DOMAIN ev /\ site \in DOMAIN ev[night_idx]

NBlockages(evs) == Len(SelectSeq(evs, IsBlockage))

IsAdd(c) == c.op \in {"add_event", "add_events"}

\* C1 as stated: in every reachable state at most one blockage is open on
\* the blockage stack.
C1_AtMostOneOpenBlockage == Len(blockage_stack) <= 1

\* C1 amended: the queue does not enforce the bound, the callers keep it:
\* from a state with at most one open blockage, every call other than an add
\* that hands over Blockages bringing the open count above one leaves at
\* most one blockage open.
C1_AtMostOneOpenUnlessPushedWhileOpen ==
    [][(/\ Len(blockage_stack) <= 1
        /\ ~(IsAdd(call') /\ Len(blockage_stack) + NBlockages(call'.evs) > 1))
       => Len(blockage_stack') <= 1]_vars

C1_Witness ==
    /\ call.op = "add_event"
    /\ IsBlockage(call.evs[1])
    /\ blockage_stack = <<call.evs[1]>>
    /\ blockage_end[call.evs[1].id] # <<>>

\* C2: with exactly one blockage open, check_blockage(resume) pops it, sets
\* its end to resume.start and returns it; no blockage is open afterwards and
\* every interruption queue is unchanged.
C2_CheckBlockagePopsTheOpenBlockage ==
    [][(call'.op = "check_blockage" /\ Len(blockage_stack) = 1)
       => /\ call'.raised = "none"
          /\ call'.ret_blockage = <<blockage_stack[1]>>
          /\ blockage_end'[blockage_stack[1].id] = <<call'.start>>
          /\ blockage_stack' = <<>>
          /\ events' = events]_vars

C2_Witness ==
    /\ call.op = "check_blockage"
    /\ call.raised = "none"
    /\ call.ret_blockage # <<>>
    /\ call.start = 2
    /\ blockage_end[call.ret_blockage[1].id] = <<2>>
    /\ blockage_stack = <<>>
    /\ \E n \in DOMAIN events : \E s \in DOMAIN events[n] : events[n][s] # <<>>

\* C3: with zero or more than one blockage open, check_blockage raises a
\* runtime error, returns nothing, and changes neither the blockage stack nor
\* any blockage's end time.
C3_CheckBlockageRaisesUnlessOneOpen ==
    [][(call'.op = "check_blockage" /\ Len(blockage_stack) # 1)
       => /\ call'.raised = "RuntimeError"
          /\ call'.ret_blockage = <<>>
          /\ blockage_stack' = blockage_stack
          /\ blockage_end' = blockage_end]_vars

C3_Witness ==
    /\ call.op = "check_blockage"
    /\ call.raised = "RuntimeError"
    /\ Len(blockage_stack) = 2

\* C4: an add_event call appends its event to the back of the queue of its
\* (night, site) pair exactly when the event is an Interruption and the call
\* does not raise, and otherwise changes no queue; no other pair's queue
\* changes, and no call other than an add changes any queue.
C4_QueuesHoldAddedInterruptionsInOrder ==
    [][/\ call'.op = "add_event" =>
            LET added == IsInterruption(call'.evs[1]) /\ call'.raised = "none"
            IN  /\ added => /\ Registered(events, call'.night, call'.site)
                            /\ events' = [events EXCEPT ![call'.night][call'.site] =
                                              Append(@, call'.evs[1])]
                /\ ~added => events' = events
       /\ ~IsAdd(call') => events' = events]_vars

C4_Witness ==
    /\ call.op = "add_event"
    /\ Registered(events, 0, "GS")
    /\ events[0]["GN"] = <<[kind |-> "Interruption", id |-> 2],
                           [kind |-> "Interruption", id |-> 1]>>

\* C5: add_event with an Interruption for a pair that was not registered
\* raises a lookup error and changes no queue and not the blockage stack.
C5_UnregisteredInterruptionRaises ==
    [][(/\ call'.op = "add_event"
        /\ IsInterruption(call'.evs[1])
        /\ ~Registered(events, call'.night, call'.site))
       => /\ call'.raised = "KeyError"
          /\ UNCHANGED <<events, blockage_stack, blockage_end>>]_vars

C5_Witness ==
    /\ call.op = "add_event"
    /\ call.raised = "KeyError"
    /\ call.night \in DOMAIN events
    /\ call.site \notin DOMAIN events[call.night]
    /\ blockage_stack # <<>>

\* C6: get_night_events never raises and changes nothing; for a pair that was
\* never registered it returns None and creates no queue, for a registered
\* pair it returns that pair's queue.
C6_GetNightEventsReadsOnly ==
    [][call'.op = "get_night_events"
       => /\ call'.raised = "none"
          /\ UNCHANGED <<events, blockage_stack, blockage_end>>
          /\ call'.ret_deque =
                IF Registered(events, call'.night, call'.site)
                THEN <<events[call'.night][call'.site]>>
                ELSE <<>>]_vars

C6_Witness ==
    /\ call.op = "get_night_events"
    /\ call.night \in DOMAIN events
    /\ call.site \notin DOMAIN events[call.night]
    /\ call.ret_deque = <<>>
    /\ \E s \in DOMAIN events[call.night] : events[call.night][s] # <<>>

\* C7: add_event with a Blockage pushes it onto the blockage stack whatever
\* night and site are passed, raises nothing, and changes no queue.
C7_BlockageIsPushedForAnyPair ==
    [][(call'.op = "add_event" /\ IsBlockage(call'.evs[1]))
       => /\ call'.raised = "none"
          /\ blockage_stack' = Append(blockage_stack, call'.evs[1])
          /\ events' = events
          /\ blockage_end' = blockage_end]_vars

C7_Witness ==
    /\ call.op = "add_event"
    /\ IsBlockage(call.evs[1])
    /\ ~Registered(events, call.night, call.site)
    /\ blockage_stack # <<>>
    /\ blockage_stack[Len(blockage_stack)] = call.evs[1]

\* the index of the first Interruption of evs (0 when it holds none)
RECURSIVE FirstInterruption(_, _)
FirstInterruption(evs, i) ==
    IF i > Len(evs)
    THEN 0
    ELSE IF IsInterruption(evs[i]) /\ ~IsBlockage(evs[i])
         THEN i
         ELSE FirstInterruption(evs, i + 1)

\* C8: add_events adds the events in order and is not atomic: on an
\* unregistered pair the first Interruption of the batch fails, the lookup
\* error propagates, the events before it stay added and the events after it
\* are not applied; otherwise every event of the batch is added in order.
C8_AddEventsIsNotAtomic ==
    [][call'.op = "add_events" =>
         LET evs == call'.evs
             reg == Registered(events, call'.night, call'.site)
             k == FirstInterruption(evs, 1)
             fails == ~reg /\ k > 0
             applied == IF fails THEN SubSeq(evs, 1, k - 1) ELSE evs
         IN  /\ call'.raised = (IF fails THEN "KeyError" ELSE "none")
             /\ blockage_stack' = blockage_stack \o SelectSeq(applied, IsBlockage)
             /\ events' = IF reg
                          THEN [events EXCEPT ![call'.night][call'.site] =
                                    @ \o SelectSeq(applied, IsInterruption)]
                          ELSE events
             /\ blockage_end' = blockage_end]_vars

C8_Witness ==
    /\ call.op = "add_events"
    /\ call.raised = "KeyError"
    /\ Len(call.evs) = 3
    /\ IsBlockage(call.evs[1])
    /\ IsInterruption(call.evs[2])
    /\ IsBlockage(call.evs[3])
    /\ blockage_stack = <<call.evs[1]>>

\* C24: once two or more blockages are open, no call reduces the number of
\* open blockages, and every check_blockage raises and returns nothing.
C24_TwoOpenBlockagesStayOpen ==
    [][Len(blockage_stack) >= 2
       => /\ Len(blockage_stack') >= Len(blockage_stack)
          /\ SubSeq(blockage_stack', 1, Len(blockage_stack)) = blockage_stack
          /\ call'.op = "check_blockage" =>
                call'.raised = "RuntimeError" /\ call'.ret_blockage = <<>>]_vars

\* two blockages are open, one was closed and opened again before, and a
\* check_blockage has just failed
C24_Witness ==
    /\ call.op = "check_blockage"
    /\ call.raised = "RuntimeError"
    /\ Len(blockage_stack) = 2
    /\ blockage_stack[1] # blockage_stack[2]
    /\ blockage_end[blockage_stack[1].id] # <<>>
    /\ blockage_end[blockage_stack[2].id] = <<>>

\* C29: add_event with an event that is neither a Blockage nor an
\* Interruption raises nothing and changes no queue, not the blockage stack
\* and no blockage's end time.
C29_OtherEventIsDropped ==
    [][(/\ call'.op = "add_event"
        /\ ~IsBlockage(call'.evs[1])
        /\ ~IsInterruption(call'.evs[1]))
       => /\ call'.raised = "none"
          /\ events' = events
          /\ blockage_stack' = blockage_stack
          /\ blockage_end' = blockage_end]_vars

\* such an event is added for a pair that has no queue, and for one that
\* has, while a blockage is open
C29_Witness ==
    /\ call.op = "add_event"
    /\ call.evs[1].kind = "ResumeNight"
    /\ call.raised = "none"
    /\ ~Registered(events, call.night, call.site)
    /\ Len(blockage_stack) = 1
    /\ \E n \in DOMAIN events : \E s \in DOMAIN events[n] : Len(events[n][s]) = 1

(***************************************************************************)
(* The group tree (common/minimodel/group.py).  groups holds the Group     *)
(* objects constructed so far, in construction order; a group's list of    *)
(* children holds positions in groups.  The children field of a Group is   *)
(* either one Observation or a list of Groups: the record                  *)
(* [obs |-> <<o>>, groups |-> <<>>] is the Observation o and               *)
(* [obs |-> <<>>, groups |-> l] is the list l.                             *)
(***************************************************************************)
Observations == {"obs1", "obs2"}

\* isinstance(children, Observation)
IsObservation(children) == children.obs # <<>>

\* Observation.__len__: an Observation counts as one child
Observation_len(obs) == 1

\* len(children)
len(children) ==
    IF IsObservation(children)
    THEN Observation_len(children.obs[1])
    ELSE Len(children.groups)

\* mutant of Group.__post_init__: zero children to observe is let through
Group_post_init_negative_only(self) ==
    IF self.number_to_observe < 0 THEN "ValueError" ELSE "none"

\* the exception __post_init__ raises ("none" when the object is valid)
Group_post_init(self) ==
    IF self.number_to_observe <= 0 THEN "ValueError" ELSE "none"

\* mutant of AndGroup.__post_init__: previous may be one past the last child
AndGroup_post_init_previous_off_by_one(self) ==
    IF Group_post_init(self) # "none"
    THEN Group_post_init(self)
    ELSE IF self.number_to_observe # len(self.children)
         THEN "ValueError"
         ELSE IF /\ self.previous # <<>>
                 /\ (self.previous[1] < 0 \/ self.previous[1] > len(self.children))
              THEN "ValueError"
              ELSE "none"

\* mutant of AndGroup.__post_init__: the number of children is not compared
AndGroup_post_init_no_count(self) ==
    IF Group_post_init(self) # "none"
    THEN Group_post_init(self)
    ELSE IF /\ self.previous # <<>>
            /\ (self.previous[1] < 0 \/ self.previous[1] >= len(self.children))
         THEN "ValueError"
         ELSE "none"

AndGroup_post_init(self) ==
    IF Group_post_init(self) # "none"
    THEN Group_post_init(self)
    ELSE IF self.number_to_observe # len(self.children)
         THEN "ValueError"
         ELSE IF /\ self.previous # <<>>
                 /\ (self.previous[1] < 0 \/ self.previous[1] >= len(self.children))
              THEN "ValueError"
              ELSE "none"

OrGroup_post_init(self) ==
    IF Group_post_init(self) # "none"
    THEN Group_post_init(self)
    ELSE IF self.number_to_observe >= len(self.children)
         THEN "ValueError"
         ELSE "none"

\* the groups that are the child of no group yet: a subgroup has one parent
Unowned ==
    {i \in 1..Len(groups) :
        \A j \in 1..Len(groups) :
            \A k \in 1..Len(groups[j].children.groups) :
                groups[j].children.groups[k] # i}

\* the values a caller may pass as children: an Observation, or a list of
\* distinct groups that have no parent, in the order they were constructed
ChildrenArgs ==
    {[obs |-> <<o>>, groups |-> <<>>] : o \in Observations}
    \cup {[obs |-> <<>>, groups |-> l] :
            l \in UNION {{x \in [1..k -> Unowned] :
                              \A i, j \in 1..k : i < j => x[i] < x[j]} :
                         k \in 0..MaxChildren}}

NumbersToObserve == (0 - 1)..(MaxChildren + 1)

PreviousArgs == {<<>>} \cup {<<i>> : i \in (0 - 1)..MaxChildren}

\* a constructor call: the object is obtained only when __post_init__ raises
\* nothing
Construct(self, raised) ==
    /\ gcall = NoGroupCall
    /\ IF raised = "none"
       THEN /\ Len(groups) < MaxGroups
            /\ groups' = Append(groups, self)
       ELSE groups' = groups
    /\ gcall' = [op |-> self.cls, number_to_observe |-> self.number_to_observe,
                 children |-> self.children, previous |-> self.previous,
                 raised |-> raised,
                 ret |-> IF raised = "none" THEN <<Len(groups) + 1>> ELSE <<>>]
    /\ UNCHANGED <<qvars, tcall, rvars, pcall>>

\* the id a caller gives the next group: every group gets an id of its own
NextGroupID == Len(groups) + 1

\* the fields the dataclass __init__ stores
AndGroup(id, number_to_observe, children, previous) ==
    [cls |-> "AndGroup", id |-> id, number_to_observe |-> number_to_observe,
     children |-> children, previous |-> previous]

OrGroup(id, number_to_observe, children) ==
    [cls |-> "OrGroup", id |-> id, number_to_observe |-> number_to_observe,
     children |-> children, previous |-> <<>>]

NewAndGroup(number_to_observe, children, previous) ==
    LET self == AndGroup(NextGroupID, number_to_observe, children, previous)
    IN  Construct(self, AndGroup_post_init(self))

NewOrGroup(number_to_observe, children) ==
    LET self == OrGroup(NextGroupID, number_to_observe, children)
    IN  Construct(self, OrGroup_post_init(self))

GroupReturn ==
    /\ gcall # NoGroupCall
    /\ gcall' = NoGroupCall
    /\ UNCHANGED groups
    /\ UNCHANGED <<qvars, tcall, rvars, pcall>>

InitGroup ==
    /\ events = EventQueue({0}, {"GN"}).events
    /\ blockage_stack = EventQueue({0}, {"GN"}).blockage_stack
    /\ blockage_end = [i \in {1, 2} |-> <<>>]
    /\ call = NoCall
    /\ groups = <<>>
    /\ gcall = NoGroupCall
    /\ tcall = NoTreeCall
    /\ RankerIdle
    /\ pcall = NoProviderCall

NextGroup ==
    \/ \E n \in NumbersToObserve, c \in ChildrenArgs, p \in PreviousArgs :
           NewAndGroup(n, c, p)
    \/ \E n \in NumbersToObserve, c \in ChildrenArgs : NewOrGroup(n, c)
    \/ GroupReturn

SpecGroup == InitGroup /\ [][NextGroup]_vars

(***************************************************************************)
(* Properties of Group construction.                                       *)
(***************************************************************************)
\* C9: construction fails when number_to_observe <= 0, when an AndGroup's
\* number_to_observe differs from its number of children, and when an
\* OrGroup's number_to_observe is not below its number of children; no group
\* that was obtained from a constructor violates any of these.
C9_InvalidGroupsAreNeverConstructed ==
    /\ \A i \in 1..Len(groups) :
          /\ groups[i].number_to_observe > 0
          /\ groups[i].cls = "AndGroup" =>
                groups[i].number_to_observe = len(groups[i].children)
          /\ groups[i].cls = "OrGroup" =>
                groups[i].number_to_observe < len(groups[i].children)
    /\ (/\ gcall.op \in {"AndGroup", "OrGroup"}
        /\ \/ gcall.number_to_observe <= 0
           \/ gcall.op = "AndGroup" /\ gcall.number_to_observe # len(gcall.children)
           \/ gcall.op = "OrGroup" /\ gcall.number_to_observe >= len(gcall.children))
       => gcall.raised = "ValueError" /\ gcall.ret = <<>>

C9_Witness ==
    /\ gcall.op = "OrGroup"
    /\ gcall.number_to_observe = 2
    /\ len(gcall.children) = 2
    /\ gcall.raised = "ValueError"
    /\ Len(groups) = 2

\* C10: constructing an AndGroup with previous set outside [0, number of
\* children) fails; with previous unset or inside the range, and a positive
\* number_to_observe equal to the number of children, it succeeds.
C10_AndGroupPreviousIsChecked ==
    gcall.op = "AndGroup" =>
        LET inside == \/ gcall.previous = <<>>
                      \/ /\ 0 <= gcall.previous[1]
                         /\ gcall.previous[1] < len(gcall.children)
            valid == /\ gcall.number_to_observe > 0
                     /\ gcall.number_to_observe = len(gcall.children)
        IN  /\ ~inside => gcall.raised = "ValueError" /\ gcall.ret = <<>>
            /\ (inside /\ valid) =>
                  /\ gcall.raised = "none"
                  /\ gcall.ret = <<Len(groups)>>
                  /\ groups[Len(groups)].previous = gcall.previous

C10_Witness ==
    /\ gcall.op = "AndGroup"
    /\ gcall.raised = "none"
    /\ Len(gcall.children.groups) = 2
    /\ gcall.previous = <<1>>

(***************************************************************************)
(* The methods of a constructed Group.  gs is the sequence of constructed  *)
(* groups and self a position in it.  A method that can raise returns      *)
(* [raised, ret].                                                          *)
(***************************************************************************)
MaxTreeGroups == 4

\* Observation.site
Observation_site(obs) == IF obs = "obs1" THEN "GN" ELSE "GS"

\* Observation.required_resources()
Observation_required_resources(obs) ==
    IF obs = "obs1" THEN {"GMOS-N", "PWFS1"} ELSE {"GMOS-S", "PWFS1"}

\* Observation.wavelengths()
Observation_wavelengths(obs) == IF obs = "obs1" THEN {500, 800} ELSE {}

\* Observation.constraints()
Observation_constraints(obs) == IF obs = "obs1" THEN {"cc50"} ELSE {"cc70"}

\* iter(obs): an Observation has no __iter__ and no __getitem__
Observation_iter(obs) == [raised |-> "TypeError", ret |-> <<>>]

\* mutant of subgroup_ids: the ids of all descendants
RECURSIVE subgroup_ids_descendants(_, _)
subgroup_ids_descendants(gs, self) ==
    IF IsObservation(gs[self].children)
    THEN {}
    ELSE UNION {{gs[gs[self].children.groups[k]].id}
                \cup subgroup_ids_descendants(gs, gs[self].children.groups[k]) :
                k \in 1..Len(gs[self].children.groups)}

subgroup_ids(gs, self) ==
    IF IsObservation(gs[self].children)
    THEN {}
    ELSE {gs[gs[self].children.groups[k]].id :
              k \in 1..Len(gs[self].children.groups)}

\* frozenset.union(*l): the unbound method needs at least one argument
frozenset_union(l) ==
    IF l = <<>>
    THEN [raised |-> "TypeError", ret |-> {}]
    ELSE [raised |-> "none", ret |-> UNION {l[k] : k \in 1..Len(l)}]

\* mutant of sites: the sites of the first child only
RECURSIVE sites_first_child(_, _)
sites_first_child(gs, self) ==
    IF IsObservation(gs[self].children)
    THEN [raised |-> "none", ret |-> {Observation_site(gs[self].children.obs[1])}]
    ELSE IF gs[self].children.groups = <<>>
         THEN [raised |-> "TypeError", ret |-> {}]
         ELSE sites_first_child(gs, gs[self].children.groups[1])

RECURSIVE sites(_, _)
sites(gs, self) ==
    IF IsObservation(gs[self].children)
    THEN [raised |-> "none", ret |-> {Observation_site(gs[self].children.obs[1])}]
    ELSE LET l == [k \in 1..Len(gs[self].children.groups) |->
                       sites(gs, gs[self].children.groups[k])]
         IN  IF \E k \in 1..Len(l) : l[k].raised # "none"
             THEN [raised |-> "TypeError", ret |-> {}]
             ELSE frozenset_union([k \in 1..Len(l) |-> l[k].ret])

\* the concatenation of the lists of l, first to last
RECURSIVE Flatten(_)
Flatten(l) == IF l = <<>> THEN <<>> ELSE Head(l) \o Flatten(Tail(l))

\* mutant of observations: the children are walked last to first
RECURSIVE observations_right_to_left(_, _)
observations_right_to_left(gs, self) ==
    IF IsObservation(gs[self].children)
    THEN <<gs[self].children.obs[1]>>
    ELSE LET n == Len(gs[self].children.groups)
         IN  Flatten([k \in 1..n |->
                 observations_right_to_left(gs, gs[self].children.groups[n + 1 - k])])

RECURSIVE observations(_, _)
observations(gs, self) ==
    IF IsObservation(gs[self].children)
    THEN <<gs[self].children.obs[1]>>
    ELSE Flatten([k \in 1..Len(gs[self].children.groups) |->
                      observations(gs, gs[self].children.groups[k])])

\* frozenset(r for c in self.children for r in c.required_resources()): self.children
\* is iterated whatever it is
RECURSIVE required_resources(_, _)
required_resources(gs, self) ==
    IF IsObservation(gs[self].children)
    THEN [raised |-> Observation_iter(gs[self].children.obs[1]).raised, ret |-> {}]
    ELSE LET l == [k \in 1..Len(gs[self].children.groups) |->
                       required_resources(gs, gs[self].children.groups[k])]
         IN  IF \E k \in 1..Len(l) : l[k].raised # "none"
             THEN [raised |-> l[CHOOSE k \in 1..Len(l) :
                                  /\ l[k].raised # "none"
                                  /\ \A j \in 1..(k - 1) : l[j].raised = "none"].raised,
                   ret |-> {}]
             ELSE [raised |-> "none", ret |-> UNION {l[k].ret : k \in 1..Len(l)}]

\* frozenset(r for c in self.children for r in c.wavelengths()): self.children
\* is iterated whatever it is
RECURSIVE wavelengths(_, _)
wavelengths(gs, self) ==
    IF IsObservation(gs[self].children)
    THEN [raised |-> Observation_iter(gs[self].children.obs[1]).raised, ret |-> {}]
    ELSE LET l == [k \in 1..Len(gs[self].children.groups) |->
                       wavelengths(gs, gs[self].children.groups[k])]
         IN  IF \E k \in 1..Len(l) : l[k].raised # "none"
             THEN [raised |-> l[CHOOSE k \in 1..Len(l) :
                                  /\ l[k].raised # "none"
                                  /\ \A j \in 1..(k - 1) : l[j].raised = "none"].raised,
                   ret |-> {}]
             ELSE [raised |-> "none", ret |-> UNION {l[k].ret : k \in 1..Len(l)}]

\* frozenset(r for c in self.children for r in c.constraints()): self.children
\* is iterated whatever it is
RECURSIVE constraints(_, _)
constraints(gs, self) ==
    IF IsObservation(gs[self].children)
    THEN [raised |-> Observation_iter(gs[self].children.obs[1]).raised, ret |-> {}]
    ELSE LET l == [k \in 1..Len(gs[self].children.groups) |->
                       constraints(gs, gs[self].children.groups[k])]
         IN  IF \E k \in 1..Len(l) : l[k].raised # "none"
             THEN [raised |-> l[CHOOSE k \in 1..Len(l) :
                                  /\ l[k].raised # "none"
                                  /\ \A j \in 1..(k - 1) : l[j].raised = "none"].raised,
                   ret |-> {}]
             ELSE [raised |-> "none", ret |-> UNION {l[k].ret : k \in 1..Len(l)}]

(***************************************************************************)
(* Trees of valid groups and calls of their methods.                       *)
(***************************************************************************)
\* a constructor call that returns an object: __post_init__ raised nothing
Build(self, raised) ==
    /\ tcall = NoTreeCall
    /\ raised = "none"
    /\ Len(groups) < MaxTreeGroups
    /\ groups' = Append(groups, self)
    /\ UNCHANGED <<qvars, gcall, tcall, rvars, pcall>>

BuildAndGroup(number_to_observe, children, previous) ==
    LET self == AndGroup(NextGroupID, number_to_observe, children, previous)
    IN  Build(self, AndGroup_post_init(self))

BuildOrGroup(number_to_observe, children) ==
    LET self == OrGroup(NextGroupID, number_to_observe, children)
    IN  Build(self, OrGroup_post_init(self))

\* a method call on the group at position self; no method assigns anything
TreeCall(op, self, raised, ret_list, ret_set) ==
    /\ tcall = NoTreeCall
    /\ tcall' = [op |-> op, self |-> self, raised |-> raised,
                 ret_list |-> ret_list, ret_set |-> ret_set]
    /\ UNCHANGED <<qvars, gvars, rvars, pcall>>

CallSubgroupIds(self) ==
    TreeCall("subgroup_ids", self, "none", <<>>, subgroup_ids(groups, self))

CallSites(self) ==
    LET r == sites(groups, self)
    IN  TreeCall("sites", self, r.raised, <<>>, r.ret)

CallObservations(self) ==
    TreeCall("observations", self, "none", observations(groups, self), {})

CallRequiredResources(self) ==
    LET r == required_resources(groups, self)
    IN  TreeCall("required_resources", self, r.raised, <<>>, r.ret)

CallWavelengths(self) ==
    LET r == wavelengths(groups, self)
    IN  TreeCall("wavelengths", self, r.raised, <<>>, r.ret)

CallConstraints(self) ==
    LET r == constraints(groups, self)
    IN  TreeCall("constraints", self, r.raised, <<>>, r.ret)

TreeReturn ==
    /\ tcall # NoTreeCall
    /\ tcall' = NoTreeCall
    /\ UNCHANGED <<qvars, gvars, rvars, pcall>>

NextTree ==
    \/ \E n \in NumbersToObserve, c \in ChildrenArgs : BuildAndGroup(n, c, <<>>)
    \/ \E n \in NumbersToObserve, c \in ChildrenArgs : BuildOrGroup(n, c)
    \/ \E self \in 1..Len(groups) : CallSubgroupIds(self)
    \/ \E self \in 1..Len(groups) : CallSites(self)
    \/ \E self \in 1..Len(groups) : CallObservations(self)
    \/ \E self \in 1..Len(groups) : CallRequiredResources(self)
    \/ \E self \in 1..Len(groups) : CallWavelengths(self)
    \/ \E self \in 1..Len(groups) : CallConstraints(self)
    \/ TreeReturn

SpecTree == InitGroup /\ [][NextTree]_vars

(***************************************************************************)
(* Properties of the Group methods.                                        *)
(***************************************************************************)
\* the positions of the immediate children of the group at position i
ChildrenOf(gs, i) ==
    {gs[i].children.groups[k] : k \in 1..Len(gs[i].children.groups)}

\* the group at position i and every group below it, at any depth
Reach(gs, i) ==
    LET R[n \in 0..Len(gs)] ==
            IF n = 0
            THEN {i}
            ELSE R[n - 1] \cup UNION {ChildrenOf(gs, j) : j \in R[n - 1]}
    IN  R[Len(gs)]

\* the observation groups among them
LeafGroups(gs, i) == {j \in Reach(gs, i) : IsObservation(gs[j].children)}

\* the observations reachable from the group at position i
ReachableObservations(gs, i) == {gs[j].children.obs[1] : j \in LeafGroups(gs, i)}

\* the paths (child positions, top down) from group i to its observation groups
RECURSIVE LeafPaths(_, _)
LeafPaths(gs, i) ==
    IF IsObservation(gs[i].children)
    THEN {<<>>}
    ELSE UNION {{<<k>> \o p : p \in LeafPaths(gs, gs[i].children.groups[k])} :
                k \in 1..Len(gs[i].children.groups)}

\* the Observation at the end of path p from group i
RECURSIVE ObservationAt(_, _, _)
ObservationAt(gs, i, p) ==
    IF p = <<>>
    THEN gs[i].children.obs[1]
    ELSE ObservationAt(gs, gs[i].children.groups[p[1]], Tail(p))

\* path p is visited before path q by a depth-first, left-to-right walk
Before(p, q) ==
    \E k \in 1..Len(p) :
        /\ k <= Len(q)
        /\ p[k] < q[k]
        /\ \A j \in 1..(k - 1) : p[j] = q[j]

\* C12: observations() lists one entry per Observation reachable from the
\* group, in the order a depth-first, left-to-right walk meets them (the one
\* Observation for an observation group), and the call changes no group.
C12_ObservationsAreListedDepthFirst ==
    [][tcall'.op = "observations" =>
          LET P == LeafPaths(groups', tcall'.self)
              R == tcall'.ret_list
          IN  /\ groups' = groups
              /\ tcall'.raised = "none"
              /\ Len(R) = Cardinality(LeafGroups(groups', tcall'.self))
              /\ Len(R) = Cardinality(P)
              /\ \A p \in P :
                    R[1 + Cardinality({q \in P : Before(q, p)})]
                        = ObservationAt(groups', tcall'.self, p)
              /\ IsObservation(groups'[tcall'.self].children) =>
                    R = <<groups'[tcall'.self].children.obs[1]>>]_vars

\* a group whose second child lies deeper than its first and holds another
\* Observation
C12_Witness ==
    /\ tcall.op = "observations"
    /\ Len(groups) >= 4
    /\ tcall.self = 4
    /\ groups[4].children.groups = <<2, 3>>
    /\ groups[2].children.groups = <<1>>
    /\ tcall.ret_list = <<"obs2", "obs1">>

\* C14: sites() is the set of the sites of all Observations reachable from
\* the group at any depth, the one site for an observation group.
C14_SitesAreTheSitesOfAllObservations ==
    tcall.op = "sites" =>
        /\ tcall.raised = "none"
        /\ tcall.ret_set = {Observation_site(o) :
                                o \in ReachableObservations(groups, tcall.self)}
        /\ IsObservation(groups[tcall.self].children) =>
              tcall.ret_set = {Observation_site(groups[tcall.self].children.obs[1])}

\* the second site is that of an Observation two levels down
C14_Witness ==
    /\ tcall.op = "sites"
    /\ tcall.ret_set = {"GN", "GS"}
    /\ \E k \in 1..Len(groups[tcall.self].children.groups) :
          LET c == groups[tcall.self].children.groups[k]
          IN  /\ ~IsObservation(groups[c].children)
              /\ {Observation_site(o) : o \in ReachableObservations(groups, c)} = {"GS"}
    /\ \A c \in ChildrenOf(groups, tcall.self) :
          IsObservation(groups[c].children) =>
              Observation_site(groups[c].children.obs[1]) = "GN"

\* C15: subgroup_ids() is the set of the ids of the immediate children, not
\* of deeper descendants, and empty for an observation group.
C15_SubgroupIdsAreTheImmediateChildren ==
    tcall.op = "subgroup_ids" =>
        /\ tcall.raised = "none"
        /\ \A j \in 1..Len(groups) :
              groups[j].id \in tcall.ret_set <=>
                  \E k \in 1..Len(groups[tcall.self].children.groups) :
                      groups[tcall.self].children.groups[k] = j
        /\ \A x \in tcall.ret_set : \E j \in 1..Len(groups) : groups[j].id = x
        /\ IsObservation(groups[tcall.self].children) => tcall.ret_set = {}

\* a group with a grandchild, whose id is not returned
C15_Witness ==
    /\ tcall.op = "subgroup_ids"
    /\ tcall.ret_set # {}
    /\ \E c \in ChildrenOf(groups, tcall.self) :
          /\ ChildrenOf(groups, c) # {}
          /\ \A d \in ChildrenOf(groups, c) : groups[d].id \notin tcall.ret_set

\* C13 as stated: required_resources(), wavelengths() and constraints() of
\* any group, an observation group included, return the union of the values
\* of every Observation reachable from the group.
C13_UnionOverReachableObservations ==
    /\ tcall.op = "required_resources" =>
          /\ tcall.raised = "none"
          /\ tcall.ret_set = UNION {Observation_required_resources(o) :
                                       o \in ReachableObservations(groups, tcall.self)}
    /\ tcall.op = "wavelengths" =>
          /\ tcall.raised = "none"
          /\ tcall.ret_set = UNION {Observation_wavelengths(o) :
                                       o \in ReachableObservations(groups, tcall.self)}
    /\ tcall.op = "constraints" =>
          /\ tcall.raised = "none"
          /\ tcall.ret_set = UNION {Observation_constraints(o) :
                                       o \in ReachableObservations(groups, tcall.self)}

(***************************************************************************)
(* Updates of a constructed AndGroup.  The dataclass is not frozen and     *)
(* __post_init__ runs at construction only: an assignment to a field       *)
(* stores the value as it is.                                              *)
(***************************************************************************)
\* group.previous = previous
SetPrevious(self, previous) ==
    /\ gcall = NoGroupCall
    /\ groups[self].cls = "AndGroup"
    /\ groups' = [groups EXCEPT ![self].previous = previous]
    /\ UNCHANGED <<qvars, gcall, tcall, rvars, pcall>>

NextUpdate ==
    \/ \E n \in NumbersToObserve, c \in {x \in ChildrenArgs : x.obs # <<"obs2">>} :
           NewAndGroup(n, c, <<>>)
    \/ \E self \in 1..Len(groups), p \in PreviousArgs : SetPrevious(self, p)
    \/ GroupReturn

SpecUpdate == InitGroup /\ [][NextUpdate]_vars

\* the two invariants of an AndGroup
AndGroupInvariant(g) ==
    /\ g.number_to_observe = len(g.children)
    /\ \/ g.previous = <<>>
       \/ 0 <= g.previous[1] /\ g.previous[1] < len(g.children)

\* C11 as stated: every AndGroup, after construction and after any later
\* update of previous, has number_to_observe equal to its number of children
\* and previous unset or a valid index into children.
C11_AndGroupInvariantAlways ==
    \A i \in 1..Len(groups) :
        groups[i].cls = "AndGroup" => AndGroupInvariant(groups[i])

\* C11 amended: an AndGroup has both properties when it is constructed and
\* keeps them until previous is assigned a value that is neither None nor
\* an index into children: a step leaves every AndGroup it constructed or
\* changed with both properties unless it assigned such a value.
C11_AndGroupInvariantUnlessBadAssignment ==
    [][\A i \in 1..Len(groups') :
          (groups'[i].cls = "AndGroup" /\ (i > Len(groups) \/ groups'[i] # groups[i]))
          => \/ AndGroupInvariant(groups'[i])
             \/ /\ i <= Len(groups)
                /\ groups'[i].previous # groups[i].previous
                /\ groups'[i].previous # <<>>
                /\ (groups'[i].previous[1] < 0
                    \/ groups'[i].previous[1] >= len(groups'[i].children))]_vars

\* an observation group whose previous was assigned 0 after construction,
\* next to a group of two children
C11_Witness ==
    /\ Len(groups) = 3
    /\ IsObservation(groups[1].children)
    /\ groups[1].previous = <<0>>
    /\ groups[3].children.groups = <<1, 2>>
    /\ groups[3].previous = <<1>>

(***************************************************************************)
(* The default ranker (scheduler/core/components/ranker/default.py).       *)
(* A score array is a sequence over the time slots of a night: the score   *)
(* of slot i is at position i + 1.  Scores are scaled to integers: the     *)
(* hour-angle weight is in hundredths, a completion fraction or threshold  *)
(* in tenths, a band parameter in thousandths, a metric or slope in        *)
(* hundred-thousandths.  All the arithmetic of the model is exact in       *)
(* these units.  A Scores dict is an object                                *)
(* [ref, val]: ref names the template it is, or is <<"new">> for an object *)
(* of its own, and val maps each night index to its array.                 *)
(***************************************************************************)
NumSlots == 2

TimeSlots == 0..(NumSlots - 1)

\* the values the score of the group with this id takes, in tenths
ScoreValues(id) == IF id = 1 THEN {0, 2, 5} ELSE {0, 3}

\* np.zeros(number of time slots)
Zeros == [i \in 1..NumSlots |-> 0]

\* Ranker.__init__: for each site, a zero array per night to score
\* observations in and an array of no rows per night to collect the scores
\* of the children of a group in
Ranker(night_indices, ranker_sites) ==
    [night_indices |-> night_indices,
     empty_obs_scores |-> [s \in ranker_sites |-> [n \in night_indices |-> Zeros]],
     empty_group_scores |-> [s \in ranker_sites |-> [n \in night_indices |-> <<>>]]]

\* the bands of a program, Band.BAND1 .. Band.BAND4
Bands == 1..4

\* RankerParameters(): thesis_factor 1.1 in thousandths; the powers
\* met_power, vis_power and wha_power are 1
RankerParameters(power) == [thesis_factor |-> 1100, power |-> power]

\* RankerBandParameters(m1, b1, m2, b2, xb, xb0, xc0): xb in tenths, the
\* others in thousandths
RankerBandParameters(m1, b1, m2, b2, xb, xb0, xc0) ==
    [m1 |-> m1, b1 |-> b1, m2 |-> m2, b2 |-> b2, xb |-> xb, xb0 |-> xb0, xc0 |-> xc0]

\* the loop of _default_band_params over the bands left to do: b1 is the
\* zero point carried from band to band; the division is exact for the
\* values of the code
RECURSIVE default_band_params_loop(_, _, _, _, _)
default_band_params_loop(bands, m2, xb, b1, prms) ==
    IF bands = <<>>
    THEN prms
    ELSE LET band == Head(bands)
             b2 == b1 + 5000 - m2[band]
             m1 == (m2[band] * xb * 10 + b2 * 100) \div (xb * xb)
         IN  default_band_params_loop(
                 Tail(bands), m2, xb, b1 + m2[band] + b2,
                 [prms EXCEPT ![band] =
                     <<RankerBandParameters(m1, b1, m2[band], b2, xb, 0, 0)>>])

\* _default_band_params(): the parameters of each band
default_band_params ==
    LET m2 == [b \in Bands |-> CASE b = 4 -> 0 [] b = 3 -> 1000
                                  [] b = 2 -> 6000 [] b = 1 -> 20000]
        first == [b \in Bands |->
                     IF b = 4
                     THEN <<RankerBandParameters(0, 100, 0, 0, 8, 0, 0)>>
                     ELSE <<>>]
        done == default_band_params_loop(<<3, 2, 1>>, m2, 8, 1200, first)
    IN  [b \in Bands |-> done[b][1]]

\* DefaultRanker.__init__(collector, night_indices, sites, params,
\* band_params): band_params <<>> is None; the attribute band_params of the
\* new ranker is <<>> when nothing was assigned to it
DefaultRanker(night_indices, ranker_sites, prms, bp) ==
    [night_indices |-> night_indices,
     empty_obs_scores |-> Ranker(night_indices, ranker_sites).empty_obs_scores,
     empty_group_scores |-> Ranker(night_indices, ranker_sites).empty_group_scores,
     params |-> prms,
     band_params |-> IF bp = <<>> THEN <<default_band_params>> ELSE <<>>]

\* the ranker as the state holds it
RankerSelf ==
    [night_indices |-> Nights,
     empty_obs_scores |-> empty_obs_scores,
     empty_group_scores |-> empty_group_scores,
     params |-> params,
     band_params |-> band_params]

\* self._empty_obs_scores[site] and self._empty_group_scores[site] as objects
EmptyObsScores(self, site) ==
    [ref |-> <<"obs", site>>, val |-> self.empty_obs_scores[site]]

EmptyGroupScores(self, site) ==
    [ref |-> <<"group", site>>, val |-> self.empty_group_scores[site]]

\* mutant of deepcopy: the object itself is handed back
deepcopy_same_object(obj) == obj

\* deepcopy(obj): an object of its own with the same value
deepcopy(obj) == [ref |-> <<"new">>, val |-> obj.val]

\* the ranker after val was written into the object scores: a template
\* changes only if scores is that template
Written(self, scores, val) ==
    IF scores.ref = <<"new">>
    THEN self
    ELSE IF scores.ref[1] = "obs"
         THEN [self EXCEPT !.empty_obs_scores[scores.ref[2]] = val]
         ELSE [self EXCEPT !.empty_group_scores[scores.ref[2]] = val]

Max(S) == CHOOSE x \in S : \A y \in S : y <= x

Range(x) == {x[k] : k \in 1..Len(x)}

\* mutant of _default_score_combiner: the plain maximum
default_score_combiner_max(x) == <<Max(Range(x))>>

\* _default_score_combiner: np.array([np.max(x)]) if 0 not in x else
\* np.array([0.])
default_score_combiner(x) ==
    IF 0 \notin Range(x) THEN <<Max(Range(x))>> ELSE <<0>>

\* RankerParameters.score_combiner, by default _default_score_combiner
score_combiner(x) == default_score_combiner(x)

\* np.apply_along_axis(self.params.score_combiner, 0, arr)[0] for an array
\* of at least one row: the combiner is applied to each column
apply_along_axis_0(arr) ==
    [j \in 1..Len(arr[1]) |-> score_combiner([k \in 1..Len(arr) |-> arr[k][j]])[1]]

\* the latitude of a site, in degrees
Latitude(site) == IF site = "GN" THEN 20 ELSE 0 - 30

\* RankerParameters.dec_diff_less_40 and .dec_diff, in hundredths
dec_diff_less_40 == <<300, 0, 0 - 8>>

dec_diff == <<300, 10, 0 - 6>>

Abs(x) == IF x < 0 THEN 0 - x ELSE x

\* the hour-angle weight of one night, negative weights set to 0
wha(site, info) ==
    LET angle == IF Latitude(site) < 0
                 THEN Abs(Latitude(site) - info.dec)
                 ELSE Abs(info.dec - Latitude(site))
        c == IF angle < 40 THEN dec_diff_less_40 ELSE dec_diff
        w == [i \in 1..NumSlots |->
                 c[1] + c[2] * info.hourangle[i]
                      + c[3] * info.hourangle[i] * info.hourangle[i]]
    IN  [i \in 1..NumSlots |-> IF w[i] <= 0 THEN 0 ELSE w[i]]

\* mutant of put: every slot is assigned
put_all(a, ind, v) == [i \in 1..Len(a) |-> v[i]]

\* a.put(ind, v[ind]): the slots of ind are assigned, the others are kept
put(a, ind, v) == [i \in 1..Len(a) |-> IF (i - 1) \in ind THEN v[i] ELSE a[i]]

RECURSIVE Pow(_, _)
Pow(x, n) == IF n = 0 THEN 1 ELSE x * Pow(x, n - 1)

\* one round of the loop of _metric_slope, for the program at idx: the
\* error it raises and the metric and slope it assigns.  self.band_params
\* is read first on the way through the round, for a band other than band
\* 3 after b3min[idx] is
metric_slope_at(self, completion, band, b3min, idx) ==
    LET curr_band == band[idx]
        power == self.params.power
    IN  IF curr_band = 3 /\ idx > Len(b3min)
        THEN [raised |-> "IndexError", metric |-> 0, slope |-> 0]
        ELSE IF self.band_params = <<>>
        THEN [raised |-> "AttributeError", metric |-> 0, slope |-> 0]
        ELSE LET prm == self.band_params[1][curr_band]
                 xb == IF curr_band = 3 THEN b3min[idx] ELSE prm.xb
                 b2 == IF power = 1
                       THEN xb * (prm.m1 - prm.m2) * 10 + (prm.xb0 + prm.b1) * 100
                       ELSE IF power = 2
                       THEN (prm.b2 + prm.xb0 + prm.b1) * 100
                       ELSE 0
             IN  IF completion[idx] * 1000000 <= 1
                 THEN [raised |-> "none", metric |-> 0, slope |-> 0]
                 ELSE IF completion[idx] < xb
                 THEN [raised |-> "none",
                       metric |-> prm.m1 * Pow(completion[idx], power)
                                         * Pow(10, 2 - power)
                                  + prm.b1 * 100,
                       slope |-> power * prm.m1 * Pow(completion[idx], power - 1)
                                       * Pow(10, 3 - power)]
                 ELSE IF completion[idx] < 10
                 THEN [raised |-> "none",
                       metric |-> prm.m2 * completion[idx] * 10 + b2,
                       slope |-> prm.m2 * 100]
                 ELSE [raised |-> "none",
                       metric |-> prm.m2 * 100 + b2 + prm.xc0 * 100,
                       slope |-> prm.m2 * 100]

\* _metric_slope(completion, band, b3min, thesis): the arrays are
\* sequences, metric and slope are <<>> when the call raises, and the
\* first round to raise ends the loop
metric_slope(self, completion, band, b3min, thesis) ==
    LET at(idx) == metric_slope_at(self, completion, band, b3min, idx)
        bad == {idx \in 1..Len(band) : at(idx).raised # "none"}
        first == CHOOSE idx \in bad : \A other \in bad : idx <= other
    IN  IF Len(band) # Len(completion)
        THEN [raised |-> "ValueError", metric |-> <<>>, slope |-> <<>>]
        ELSE IF bad # {}
        THEN [raised |-> at(first).raised, metric |-> <<>>, slope |-> <<>>]
        ELSE [raised |-> "none",
              metric |-> [idx \in 1..Len(band) |->
                             at(idx).metric
                             + (IF thesis THEN self.params.thesis_factor * 100 ELSE 0)],
              slope |-> [idx \in 1..Len(band) |-> at(idx).slope]]

\* obs.exec_time() and obs.total_used(), in hours
Observation_exec_time(obs) == IF obs = "obs1" THEN 5 ELSE 2

Observation_total_used(obs) == IF obs = "obs1" THEN 0 ELSE 2

\* score_observation(program, obs): target_info is what
\* Collector.get_target_info(obs.id) returns (<<>> is None); the times of
\* the program are in hours and cplt is in tenths; ret is <<>> when the
\* call raises
score_observation(self, program, obs, target_info) ==
    LET scores == deepcopy(EmptyObsScores(self, Observation_site(obs)))
        remaining == Observation_exec_time(obs) - Observation_total_used(obs)
        cplt == ((program.total_used + remaining) * 10) \div program.total_awarded
        ms == metric_slope(self, <<cplt>>, <<program.band>>, <<8>>, program.thesis)
    IN  IF target_info = <<>>
        THEN [self |-> self, raised |-> "none", metric |-> <<>>, ret |-> <<scores>>]
        ELSE IF ms.raised # "none"
        THEN [self |-> self, raised |-> ms.raised, metric |-> <<>>, ret |-> <<>>]
        ELSE LET info == target_info[1]
                 p == [n \in self.night_indices |->
                          [i \in 1..NumSlots |->
                              ms.metric[1] * info[n].rem_visibility_frac
                                           * wha(Observation_site(obs), info[n])[i]]]
                 val == [n \in self.night_indices |->
                            put(scores.val[n], info[n].visibility_slot_idx, p[n])]
             IN  [self |-> Written(self, scores, val), raised |-> "none",
                  metric |-> ms.metric,
                  ret |-> <<[scores EXCEPT !.val = val]>>]

\* mutant of _score_and_group: a group of several sites is scored at one of
\* them
score_and_group_any_site(self, gs, group, group_data_map) ==
    LET site == CHOOSE s \in sites(gs, group).ret : TRUE
        rows == [n \in self.night_indices |->
                    [k \in 1..Len(gs[group].children.groups) |->
                        group_data_map[gs[gs[group].children.groups[k]].id][n]]]
    IN  IF IsObservation(gs[group].children)
        THEN [self |-> self, raised |-> "TypeError", ret |-> <<>>]
        ELSE [self |-> self, raised |-> "none",
              ret |-> <<[ref |-> <<"new">>,
                         val |-> [n \in self.night_indices |->
                                     apply_along_axis_0(rows[n])]]>>]

\* mutant of _score_and_group: the rows of the first night are combined for
\* every night
score_and_group_first_night(self, gs, group, group_data_map) ==
    LET first == CHOOSE n \in self.night_indices : \A m \in self.night_indices : n <= m
        rows == [k \in 1..Len(gs[group].children.groups) |->
                    group_data_map[gs[gs[group].children.groups[k]].id][first]]
    IN  IF Cardinality(sites(gs, group).ret) # 1
        THEN [self |-> self, raised |-> "ValueError", ret |-> <<>>]
        ELSE IF IsObservation(gs[group].children)
             THEN [self |-> self, raised |-> "TypeError", ret |-> <<>>]
             ELSE [self |-> self, raised |-> "none",
                   ret |-> <<[ref |-> <<"new">>,
                              val |-> [n \in self.night_indices |->
                                          apply_along_axis_0(rows)]]>>]

\* _score_and_group(group, group_data_map): group_data_map maps the id of a
\* group to its scores per night; ret is <<>> when the call raises
score_and_group(self, gs, group, group_data_map) ==
    IF sites(gs, group).raised # "none"
    THEN [self |-> self, raised |-> sites(gs, group).raised, ret |-> <<>>]
    ELSE IF Cardinality(sites(gs, group).ret) # 1
    THEN [self |-> self, raised |-> "ValueError", ret |-> <<>>]
    ELSE LET site == CHOOSE s \in sites(gs, group).ret : TRUE
             scores == deepcopy(EmptyGroupScores(self, site))
         IN  IF IsObservation(gs[group].children)
             THEN [self |-> self,
                   raised |-> Observation_iter(gs[group].children.obs[1]).raised,
                   ret |-> <<>>]
             ELSE LET val == [n \in self.night_indices |->
                                 scores.val[n] \o
                                 [k \in 1..Len(gs[group].children.groups) |->
                                     group_data_map[gs[gs[group].children.groups[k]].id][n]]]
                      after == Written(self, scores, val)
                  IN  IF \E n \in self.night_indices : val[n] = <<>>
                      THEN [self |-> after, raised |-> "ValueError", ret |-> <<>>]
                      ELSE [self |-> after, raised |-> "none",
                            ret |-> <<[ref |-> <<"new">>,
                                       val |-> [n \in self.night_indices |->
                                                   apply_along_axis_0(val[n])]]>>]

(***************************************************************************)
(* Calls of the ranker.  kept holds the Scores objects earlier calls       *)
(* returned, oldest first, for as long as the caller holds them.           *)
(***************************************************************************)
MaxKept == 2

\* the caller holds the returned object and lets go of the oldest one
Hold(k, obj) ==
    IF Len(k) < MaxKept THEN Append(k, obj) ELSE Append(Tail(k), obj)

\* declinations (degrees) and hour angles (hours) of a target
Decs == {20, 0 - 30}

HourAngles == {0, 7}

\* remaining visibility fractions, in tenths
VisibilityFracs == {0, 5}

\* programs: the times used and awarded in hours, the band and the thesis
\* flag
Programs ==
    {[total_used |-> 0, total_awarded |-> 10, band |-> 3, thesis |-> FALSE],
     [total_used |-> 3, total_awarded |-> 10, band |-> 4, thesis |-> TRUE]}

\* a band-parameter map handed to the constructor: the same flat metric
\* for every band
SuppliedBandParams ==
    [b \in Bands |-> RankerBandParameters(0, 1000, 0, 0, 5, 0, 0)]

\* the band_params argument of the constructor: None or a map
BandParamsArgs == {<<>>, <<SuppliedBandParams>>}

\* the exponents of the completion fraction
Powers == {1, 2}

\* the TargetInfo of one night
TargetInfos ==
    [dec : Decs, hourangle : [1..NumSlots -> HourAngles],
     rem_visibility_frac : VisibilityFracs, visibility_slot_idx : SUBSET TimeSlots]

\* what Collector.get_target_info returns: None or a TargetInfo per night
TargetInfoMaps == {<<>>} \cup {<<m>> : m \in [Nights -> TargetInfos]}

\* two observation groups and the AND group of the two
RankerTree(o1, o2) ==
    <<AndGroup(1, 1, [obs |-> <<o1>>, groups |-> <<>>], <<>>),
      AndGroup(2, 1, [obs |-> <<o2>>, groups |-> <<>>], <<>>),
      AndGroup(3, 2, [obs |-> <<>>, groups |-> <<1, 2>>], <<>>)>>

RankerTrees == {RankerTree("obs2", "obs2"), RankerTree("obs1", "obs2")}

\* the scores per night a group with this id may have; flat: the same score
\* at every slot of every night
ScoreArrays(id, flat) ==
    IF flat
    THEN {[n \in Nights |-> [i \in 1..NumSlots |-> v]] : v \in ScoreValues(id)}
    ELSE [Nights -> [1..NumSlots -> ScoreValues(id)]]

\* the maps from each id of ids to one of its ScoreArrays
RECURSIVE DataMaps(_, _)
DataMaps(ids, flat) ==
    IF ids = {}
    THEN {[id \in {} |-> <<>>]}
    ELSE LET first == CHOOSE id \in ids : TRUE
         IN  {[id \in ids |-> IF id = first THEN a ELSE d[id]] :
                 a \in ScoreArrays(first, flat), d \in DataMaps(ids \ {first}, flat)}

\* the group_data_maps for a call on group: the scores per night of each
\* of its children
GroupDataMaps(gs, group) == DataMaps(subgroup_ids(gs, group), FALSE)

StoreRanker(self) ==
    /\ empty_obs_scores' = self.empty_obs_scores
    /\ empty_group_scores' = self.empty_group_scores
    /\ UNCHANGED <<params, band_params, band_params_arg>>

\* the state after DefaultRanker(collector, Nights, Sites, prms, bp)
Constructed(prms, bp) ==
    /\ empty_obs_scores = DefaultRanker(Nights, Sites, prms, bp).empty_obs_scores
    /\ empty_group_scores = DefaultRanker(Nights, Sites, prms, bp).empty_group_scores
    /\ params = DefaultRanker(Nights, Sites, prms, bp).params
    /\ band_params = DefaultRanker(Nights, Sites, prms, bp).band_params
    /\ band_params_arg = bp
    /\ kept = <<>>
    /\ rcall = NoRankerCall

InitRanker ==
    /\ events = EventQueue({0}, {"GN"}).events
    /\ blockage_stack = EventQueue({0}, {"GN"}).blockage_stack
    /\ blockage_end = [i \in {1, 2} |-> <<>>]
    /\ call = NoCall
    /\ groups \in RankerTrees
    /\ gcall = NoGroupCall
    /\ tcall = NoTreeCall
    /\ \E bp \in BandParamsArgs : Constructed(RankerParameters(2), bp)
    /\ pcall = NoProviderCall

ScoreObservation(program, obs, target_info) ==
    LET r == score_observation(RankerSelf, program, obs, target_info)
    IN  /\ rcall = NoRankerCall
        /\ StoreRanker(r.self)
        /\ kept' = IF r.raised = "none" THEN Hold(kept, r.ret[1]) ELSE kept
        /\ rcall' = [NoRankerCall EXCEPT !.op = "score_observation",
                                         !.program = <<program>>, !.obs = obs,
                                         !.target_info = target_info,
                                         !.metric = r.metric, !.raised = r.raised,
                                         !.ret = IF r.raised = "none"
                                                 THEN <<r.ret[1].val>>
                                                 ELSE <<>>]
        /\ UNCHANGED <<qvars, gvars, tcall, pcall>>

ScoreAndGroup(group, group_data_map) ==
    LET r == score_and_group(RankerSelf, groups, group, group_data_map)
    IN  /\ rcall = NoRankerCall
        /\ StoreRanker(r.self)
        /\ kept' = IF r.raised = "none" THEN Hold(kept, r.ret[1]) ELSE kept
        /\ rcall' = [NoRankerCall EXCEPT !.op = "score_and_group", !.group = group,
                                         !.group_data_map = group_data_map,
                                         !.raised = r.raised,
                                         !.ret = IF r.raised = "none"
                                                 THEN <<r.ret[1].val>>
                                                 ELSE <<>>]
        /\ UNCHANGED <<qvars, gvars, tcall, pcall>>

\* the call returns and the caller drops the scores
RankerReturn ==
    /\ rcall # NoRankerCall
    /\ rcall' = NoRankerCall
    /\ kept' = <<>>
    /\ UNCHANGED <<qvars, gvars, tcall, pcall, empty_obs_scores, empty_group_scores,
                   params, band_params, band_params_arg>>

\* the call returns and the caller holds on to the scores
RankerKeep ==
    /\ rcall # NoRankerCall
    /\ rcall' = NoRankerCall
    /\ UNCHANGED <<qvars, gvars, tcall, pcall, empty_obs_scores, empty_group_scores,
                   kept, params, band_params, band_params_arg>>

NextRanker ==
    \/ /\ rcall = NoRankerCall
       /\ \E p \in Programs, obs \in Observations, t \in TargetInfoMaps :
              ScoreObservation(p, obs, t)
    \/ /\ rcall = NoRankerCall
       /\ \E g \in 1..Len(groups) :
              \E d \in GroupDataMaps(groups, g) : ScoreAndGroup(g, d)
    \/ RankerReturn

SpecRanker == InitRanker /\ [][NextRanker]_vars

\* the calls of a caller that holds on to what it gets: a target seen alike
\* on every night at hour angle 0, and children scoring alike at every slot
KeptTargetInfoMaps ==
    {<<>>} \cup
    {<<[n \in Nights |-> [dec |-> 20, hourangle |-> [i \in 1..NumSlots |-> 0],
                          rem_visibility_frac |-> 5, visibility_slot_idx |-> ind]]>> :
        ind \in SUBSET TimeSlots}

KeptGroupDataMaps(gs, group) == DataMaps(subgroup_ids(gs, group), TRUE)

NextKeep ==
    \/ /\ rcall = NoRankerCall
       /\ \E p \in Programs, obs \in Observations, t \in KeptTargetInfoMaps :
              ScoreObservation(p, obs, t)
    \/ /\ rcall = NoRankerCall
       /\ \E g \in 1..Len(groups) :
              \E d \in KeptGroupDataMaps(groups, g) : ScoreAndGroup(g, d)
    \/ RankerKeep

SpecKeep == InitRanker /\ [][NextKeep]_vars

(***************************************************************************)
(* Calls of _metric_slope on a ranker constructed with either exponent     *)
(* and with or without a band-parameter map.                               *)
(***************************************************************************)
MaxArray == 2

\* the sequences over S of length at most n
SeqsUpTo(S, n) == UNION {[1..k -> S] : k \in 0..n}

\* completion fractions and band 3 minimum time fractions, in tenths
Completions == {0, 5, 8, 10, 12}

B3Mins == {5, 8}

InitMetric ==
    /\ events = EventQueue({0}, {"GN"}).events
    /\ blockage_stack = EventQueue({0}, {"GN"}).blockage_stack
    /\ blockage_end = [i \in {1, 2} |-> <<>>]
    /\ call = NoCall
    /\ groups = RankerTree("obs1", "obs2")
    /\ gcall = NoGroupCall
    /\ tcall = NoTreeCall
    /\ \E power \in Powers, bp \in BandParamsArgs :
           Constructed(RankerParameters(power), bp)
    /\ pcall = NoProviderCall

MetricSlope(completion, band, b3min, thesis) ==
    LET r == metric_slope(RankerSelf, completion, band, b3min, thesis)
    IN  /\ rcall = NoRankerCall
        /\ rcall' = [NoRankerCall EXCEPT !.op = "metric_slope",
                                         !.completion = completion,
                                         !.band = band, !.b3min = b3min,
                                         !.thesis = thesis, !.raised = r.raised,
                                         !.ret = IF r.raised = "none"
                                                 THEN <<[metric |-> r.metric,
                                                         slope |-> r.slope]>>
                                                 ELSE <<>>]
        /\ UNCHANGED <<qvars, gvars, tcall, pcall, empty_obs_scores,
                       empty_group_scores, kept, params, band_params,
                       band_params_arg>>

NextMetric ==
    \/ /\ rcall = NoRankerCall
       /\ \E completion \in SeqsUpTo(Completions, MaxArray),
             band \in SeqsUpTo(Bands, MaxArray),
             b3min \in SeqsUpTo(B3Mins, MaxArray), thesis \in BOOLEAN :
              MetricSlope(completion, band, b3min, thesis)
    \/ RankerReturn

SpecMetric == InitMetric /\ [][NextMetric]_vars

(***************************************************************************)
(* Properties of the ranker.                                               *)
(***************************************************************************)
\* the scores of the immediate children of the scored group at slot
\* position i of night n
ChildScores(n, i) ==
    {rcall.group_data_map[id][n][i] : id \in subgroup_ids(groups, rcall.group)}

C17_AnyZeroChildGivesZero ==
    (rcall.op = "score_and_group" /\ rcall.raised = "none") =>
        \A n \in Nights, i \in 1..NumSlots :
            0 \in ChildScores(n, i) => rcall.ret[1][n][i] = 0

\* one child scores 0 and the other 0.5 at the first slot of night 1
C17_Witness ==
    /\ rcall.op = "score_and_group"
    /\ rcall.raised = "none"
    /\ rcall.group_data_map[1][1][1] = 5
    /\ rcall.group_data_map[2][1][1] = 0
    /\ rcall.ret[1][1][1] = 0
    /\ rcall.ret[1][1][2] > 0

\* C18: _score_and_group raises ValueError and returns no scores when the
\* observations reachable from the group are at more than one site; with
\* exactly one site the check passes and the children's scores are combined.
C18_SeveralSitesRaise ==
    rcall.op = "score_and_group" =>
        LET reached == {Observation_site(o) :
                           o \in ReachableObservations(groups, rcall.group)}
        IN  /\ Cardinality(reached) # 1 =>
                  rcall.raised = "ValueError" /\ rcall.ret = <<>>
            /\ Cardinality(reached) = 1 => rcall.raised # "ValueError"
            /\ (Cardinality(reached) = 1 /\ ~IsObservation(groups[rcall.group].children))
                  => rcall.raised = "none" /\ rcall.ret # <<>>

\* a group over an observation at each site, with positive child scores
C18_Witness ==
    /\ rcall.op = "score_and_group"
    /\ rcall.raised = "ValueError"
    /\ ChildScores(0, 1) = {5, 3}
    /\ {Observation_site(o) : o \in ReachableObservations(groups, rcall.group)}
          = {"GN", "GS"}

\* C19: score_observation returns all zeros for every night when there is no
\* target info, and otherwise a nonzero score only at the slots of the
\* night's visibility_slot_idx; a call that raises has no scores.
C19_ScoresOnlyAtVisibleSlots ==
    rcall.op = "score_observation" =>
        /\ rcall.target_info = <<>> =>
              /\ rcall.raised = "none"
              /\ \A n \in Nights, i \in 1..NumSlots : rcall.ret[1][n][i] = 0
        /\ (rcall.target_info # <<>> /\ rcall.raised = "none") =>
              \A n \in Nights, i \in 1..NumSlots :
                  rcall.ret[1][n][i] # 0 =>
                      (i - 1) \in rcall.target_info[1][n].visibility_slot_idx

\* the target is up all night 0 but visible in slot 0 only
C19_Witness ==
    /\ rcall.op = "score_observation"
    /\ rcall.target_info # <<>>
    /\ rcall.raised = "none"
    /\ rcall.metric = <<354375>>
    /\ rcall.target_info[1][0].visibility_slot_idx = {0}
    /\ rcall.target_info[1][0].rem_visibility_frac = 5
    /\ \A i \in 1..NumSlots : rcall.target_info[1][0].hourangle[i] = 0
    /\ \A i \in 1..NumSlots : rcall.ret[1][0][i] = (IF i = 1 THEN 531562500 ELSE 0)

\* what the object o holds when the templates are obs_t and group_t
Content(o, obs_t, group_t) ==
    IF o.ref = <<"new">>
    THEN o.val
    ELSE IF o.ref[1] = "obs" THEN obs_t[o.ref[2]] ELSE group_t[o.ref[2]]

\* every template is as Ranker.__init__ made it
TemplatesEmpty ==
    /\ empty_obs_scores = Ranker(Nights, Sites).empty_obs_scores
    /\ empty_group_scores = Ranker(Nights, Sites).empty_group_scores

\* C20: every scoring call works on a copy of the template: after any
\* sequence of score_observation and _score_and_group calls the templates
\* are as they were made, and no call changes the scores an earlier call
\* returned.
C20_TemplatesStayEmpty ==
    [][/\ TemplatesEmpty /\ TemplatesEmpty'
       /\ \A k \in 1..Len(kept) :
             Content(kept[k], empty_obs_scores', empty_group_scores')
                 = Content(kept[k], empty_obs_scores, empty_group_scores)]_vars

\* the caller holds nonzero observation scores and the scores of a group,
\* and a third call has returned other scores
C20_Witness ==
    /\ rcall.op = "score_observation"
    /\ Len(kept) = 2
    /\ kept[1].val # kept[2].val
    /\ \E n \in Nights, i \in 1..NumSlots : kept[1].val[n][i] = 5
    /\ \E n \in Nights, i \in 1..NumSlots : kept[2].val[n][i] = 531562500
    /\ TemplatesEmpty

(***************************************************************************)
(* The OCS program provider (scheduler/core/programprovider/ocs/            *)
(* __init__.py).  A step of a sequence is a record of the entries          *)
(* parse_atoms reads; a time is in microseconds, a wavelength in tenths of *)
(* a micron.                                                               *)
(***************************************************************************)
MaxSteps == 3

\* OcsProgramProvider._OBSERVE_TYPES
OBSERVE_TYPES == {"FLAT", "ARC", "DARK", "BIAS"}

\* str.upper() on the strings a step carries
Upper(str) ==
    CASE str = "science" -> "SCIENCE"
      [] str = "partnerCal" -> "PARTNERCAL"
      [] str = "flat" -> "FLAT"
      [] OTHER -> str

\* the step is an exposure on sky
OnSky(step) == Upper(step.observe_type) \notin OBSERVE_TYPES

\* timedelta(seconds=total_time / 1000) for a total time in milliseconds
timedelta_seconds(total_time) == total_time * 1000

\* Atom(id=atom_id, exec_time=ZeroTime, ...)
Atom(atom_id) ==
    [id |-> atom_id, exec_time |-> 0, prog_time |-> 0, part_time |-> 0,
     program_used |-> 0, partner_used |-> 0, observed |-> FALSE,
     qa_state |-> "NONE"]

\* what is done to the previous atom when a new one is opened and to the
\* last atom at the end; qa_min is min(qa_states, default=QAState.NONE)
close_atom(atom, qa_min) ==
    [atom EXCEPT !.qa_state = qa_min, !.observed = (qa_min # "NONE")]

\* mutant of update_atom: the time of a partner calibration is charged to
\* the program as well
update_atom_charged_twice(atom, step) ==
    LET t == timedelta_seconds(step.total_time)
    IN  IF step.observe_class = "partnerCal"
        THEN [atom EXCEPT !.exec_time = @ + t, !.part_time = @ + t,
                          !.prog_time = @ + t]
        ELSE [atom EXCEPT !.exec_time = @ + t, !.prog_time = @ + t]

\* the time of the step is added to the atom
update_atom(atom, step) ==
    LET t == timedelta_seconds(step.total_time)
    IN  IF step.observe_class = "partnerCal"
        THEN [atom EXCEPT !.exec_time = @ + t, !.part_time = @ + t]
        ELSE [atom EXCEPT !.exec_time = @ + t, !.prog_time = @ + t]

\* next_atom after the tests of one round of the loop of parse_atoms;
\* n_offsets and n_pattern are the counters as the round has updated them
opens_atom(sequence, mode, offset_lag, step_id, n_offsets, n_pattern, prev) ==
    LET step == sequence[step_id + 1]
        before == sequence[prev + 1]
        nir_imaging == /\ mode = "IMAGING"
                       /\ offset_lag = 0
                       /\ \A k \in 1..Len(sequence) : sequence[k].wavelength > 10
    IN  \/ step_id = 0
        \/ step_id > 0 /\ step.wavelength # sequence[step_id].wavelength
        \/ /\ OnSky(step)
           /\ prev >= 0
           /\ Upper(step.observe_class) = "SCIENCE"
           /\ step_id > 0
           /\ (step.exposure_time # before.exposure_time \/ step.coadds # before.coadds)
        \/ OnSky(step) /\ nir_imaging /\ n_offsets % 2 = 1
        \/ OnSky(step) /\ ~nir_imaging /\ n_pattern < 0

\* the loop of parse_atoms from step step_id on; st holds n_atom, atom_id,
\* atoms, n_offsets, n_pattern and prev.  The offsets p and q of a step not
\* on sky are 0, and a negative index counts from the end of the list.
\* atoms[-1] raises IndexError when no atom is open
RECURSIVE parse_atoms_loop(_, _, _, _, _, _)
parse_atoms_loop(sequence, mode, offset_lag, qa_min, step_id, st) ==
    IF step_id >= Len(sequence)
    THEN [raised |-> "none", atoms |-> st.atoms, n_atom |-> st.n_atom]
    ELSE LET step == sequence[step_id + 1]
             at(k) == sequence[(IF k < 0 THEN Len(sequence) + k ELSE k) + 1]
             p(k) == IF OnSky(at(k)) THEN at(k).p ELSE 0
             q(k) == IF OnSky(at(k)) THEN at(k).q ELSE 0
             nir_imaging == /\ mode = "IMAGING"
                            /\ offset_lag = 0
                            /\ \A k \in 1..Len(sequence) : sequence[k].wavelength > 10
             n_offsets == IF OnSky(step) /\ nir_imaging
                          THEN IF step_id = 0
                               THEN st.n_offsets + 1
                               ELSE IF p(step_id) # p(st.prev) \/ q(step_id) # q(st.prev)
                                    THEN st.n_offsets + 1
                                    ELSE st.n_offsets
                          ELSE st.n_offsets
             n_pattern == IF OnSky(step) /\ ~nir_imaging
                          THEN st.n_pattern - 1
                          ELSE st.n_pattern
             next_atom == opens_atom(sequence, mode, offset_lag, step_id,
                                     n_offsets, n_pattern, st.prev)
             n_pattern_reset == IF OnSky(step) /\ ~nir_imaging /\ n_pattern < 0
                                THEN offset_lag - 1
                                ELSE n_pattern
             prev == IF OnSky(step) THEN step_id ELSE st.prev
             closed == IF st.n_atom > 0
                       THEN [st.atoms EXCEPT ![Len(st.atoms)] = close_atom(@, qa_min)]
                       ELSE st.atoms
             opened == IF next_atom
                       THEN [n_atom |-> st.n_atom + 1,
                             atoms |-> Append(closed, Atom(st.atom_id)),
                             n_pattern |-> IF OnSky(step) /\ n_pattern_reset = 0
                                           THEN offset_lag
                                           ELSE n_pattern_reset,
                             n_offsets |-> 1]
                       ELSE [n_atom |-> st.n_atom, atoms |-> st.atoms,
                             n_pattern |-> n_pattern_reset, n_offsets |-> n_offsets]
         IN  IF opened.atoms = <<>>
             THEN [raised |-> "IndexError", atoms |-> <<>>, n_atom |-> 0]
             ELSE parse_atoms_loop(
                      sequence, mode, offset_lag, qa_min, step_id + 1,
                      [n_atom |-> opened.n_atom, atom_id |-> opened.n_atom,
                       atoms |-> [opened.atoms EXCEPT ![Len(opened.atoms)] =
                                     update_atom(@, step)],
                       n_offsets |-> opened.n_offsets,
                       n_pattern |-> opened.n_pattern, prev |-> prev])

\* parse_atoms(site, sequence, qa_states, split): mode is what
\* determine_mode returns and offset_lag the length of the offset pattern
\* found in the sky offsets (len(sequence) when the sequence is not split);
\* ret is <<>> when the call raises
parse_atoms(sequence, mode, offset_lag, qa_min) ==
    IF sequence = <<>>
    THEN [raised |-> "IndexError", ret |-> <<>>]
    ELSE LET r == parse_atoms_loop(sequence, mode, offset_lag, qa_min, 0,
                                   [n_atom |-> 0, atom_id |-> 0, atoms |-> <<>>,
                                    n_offsets |-> 0, n_pattern |-> offset_lag,
                                    prev |-> 0 - 1])
         IN  IF r.raised # "none"
             THEN [raised |-> r.raised, ret |-> <<>>]
             ELSE [raised |-> "none",
                   ret |-> <<IF r.n_atom > 0
                             THEN [r.atoms EXCEPT ![Len(r.atoms)] = close_atom(@, qa_min)]
                             ELSE r.atoms>>]

\* the steps of a sequence: exposures on sky and partner calibrations
Steps ==
    {[observe_class |-> "science", observe_type |-> "OBJECT", wavelength |-> w,
      exposure_time |-> e, coadds |-> 1, p |-> 0, q |-> q, total_time |-> 1000] :
        w \in {5, 20}, e \in {1, 2}, q \in {0, 1}}
    \cup {[observe_class |-> "science", observe_type |-> "OBJECT", wavelength |-> 20,
           exposure_time |-> 1, coadds |-> 2, p |-> 1, q |-> 0, total_time |-> 1500]}
    \cup {[observe_class |-> "partnerCal", observe_type |-> "flat", wavelength |-> w,
           exposure_time |-> 1, coadds |-> 1, p |-> 0, q |-> 0, total_time |-> 2500] :
        w \in {5, 20}}

\* the sequences of an observation, the empty one included
Sequences == UNION {[1..k -> Steps] : k \in 0..MaxSteps}

\* ObservationMode values determine_mode may return
Modes == {"IMAGING", "LONGSLIT"}

\* min(qa_states, default=QAState.NONE)
QaMins == {"NONE", "PASS"}

ParseAtoms(sequence, mode, offset_lag, qa_min) ==
    LET r == parse_atoms(sequence, mode, offset_lag, qa_min)
    IN  /\ pcall = NoProviderCall
        /\ pcall' = [op |-> "parse_atoms", sequence |-> sequence, mode |-> mode,
                     offset_lag |-> offset_lag, raised |-> r.raised, ret |-> r.ret]
        /\ UNCHANGED <<qvars, gvars, tcall, rvars>>

ProviderReturn ==
    /\ pcall # NoProviderCall
    /\ pcall' = NoProviderCall
    /\ UNCHANGED <<qvars, gvars, tcall, rvars>>

(***************************************************************************)
(* Groups of a program.  The data of a group is a record: groups is the    *)
(* data of its scheduling groups in the order of their sorted keys, obs    *)
(* its observation entries and folders the observation entries of each of  *)
(* its organizational folders.  An observation entry is its key number and *)
(* whether parse_observation returns an Observation for it.  The groups    *)
(* built are kept in a heap, a sequence in which the children of a group   *)
(* are positions, as in the state variable groups.                         *)
(***************************************************************************)
MaxSubgroups == 2

ObsKeys == {1, 2}

\* the Observation parse_observation makes of the entry with this key
ObservationOfKey(key) == IF key = 1 THEN "obs1" ELSE "obs2"

\* mutant of parse_observation: every observation is returned
parse_observation_keeps_all(obs_data) == <<ObservationOfKey(obs_data.key)>>

\* parse_observation(obs_data, obs_num, program_id, split): None for an
\* observation that is not valid, active and of an acceptable class
parse_observation(obs_data) ==
    IF obs_data.survives THEN <<ObservationOfKey(obs_data.key)>> ELSE <<>>

\* AndGroup(id, program_id, group_name, number_to_observe, delay_min,
\* delay_max, children, group_option): the fields the model keeps
OcsAndGroup(id, number_to_observe, children, group_option) ==
    [cls |-> "AndGroup", id |-> id, number_to_observe |-> number_to_observe,
     children |-> children, previous |-> <<>>, group_option |-> group_option]

\* the trivial AND groups of the observations, appended to the heap; the
\* constructor of a group may raise
RECURSIVE trivial_groups(_, _, _)
trivial_groups(obs_list, heap, made) ==
    IF obs_list = <<>>
    THEN [raised |-> "none", heap |-> heap, made |-> made]
    ELSE LET obs == Head(obs_list)
             g == OcsAndGroup(<<"obs", obs>>, 1, [obs |-> <<obs>>, groups |-> <<>>],
                              "ANYORDER")
         IN  IF AndGroup_post_init(g) # "none"
             THEN [raised |-> AndGroup_post_init(g), heap |-> heap, made |-> made]
             ELSE trivial_groups(Tail(obs_list), Append(heap, g),
                                 Append(made, Len(heap) + 1))

\* the observations parse_observation returns for the blocks, in order
RECURSIVE parse_observations(_)
parse_observations(obs_data_blocks) ==
    IF obs_data_blocks = <<>>
    THEN <<>>
    ELSE parse_observation(Head(obs_data_blocks))
         \o parse_observations(Tail(obs_data_blocks))

\* the observation entries of all the folders, folder after folder
RECURSIVE org_folders_obs_data(_)
org_folders_obs_data(org_folders) ==
    IF org_folders = <<>>
    THEN <<>>
    ELSE Head(org_folders) \o org_folders_obs_data(Tail(org_folders))

\* parse_and_group(data, program_id, group_id, split): ret is <<>> for None
\* and for a call that raises, and otherwise the position of the group in
\* the heap.  parse_subgroups is its loop over the scheduling groups from
\* the k-th on
RECURSIVE parse_and_group(_, _, _)
RECURSIVE parse_subgroups(_, _, _, _)
parse_subgroups(data, k, heap, children) ==
    IF k > Len(data.groups)
    THEN [raised |-> "none", heap |-> heap, children |-> children]
    ELSE LET sub == parse_and_group(data.groups[k], <<"group", k>>, heap)
         IN  IF sub.raised # "none"
             THEN [raised |-> sub.raised, heap |-> sub.heap, children |-> children]
             ELSE parse_subgroups(data, k + 1, sub.heap, children \o sub.ret)

parse_and_group(data, group_id, heap) ==
    LET subs == parse_subgroups(data, 1, heap, <<>>)
        top_level_obs_data == data.obs
        folders_obs_data == org_folders_obs_data(data.folders)
        repeated_keys ==
            {top_level_obs_data[i].key : i \in 1..Len(top_level_obs_data)}
            \cap {folders_obs_data[i].key : i \in 1..Len(folders_obs_data)}
        obs_list == parse_observations(top_level_obs_data \o folders_obs_data)
        trivial == trivial_groups(obs_list, subs.heap, <<>>)
        children == subs.children \o trivial.made
        number_to_observe == Len(children)
        g == OcsAndGroup(group_id, number_to_observe,
                         [obs |-> <<>>, groups |-> children], "CONSEC_ORDERED")
    IN  IF subs.raised # "none"
        THEN [raised |-> subs.raised, heap |-> subs.heap, ret |-> <<>>]
        ELSE IF Len(data.folders) # 0 /\ repeated_keys # {}
        THEN [raised |-> "RuntimeError", heap |-> subs.heap, ret |-> <<>>]
        ELSE IF trivial.raised # "none"
        THEN [raised |-> trivial.raised, heap |-> trivial.heap, ret |-> <<>>]
        ELSE IF number_to_observe = 0
        THEN [raised |-> "none", heap |-> trivial.heap, ret |-> <<>>]
        ELSE IF AndGroup_post_init(g) # "none"
        THEN [raised |-> AndGroup_post_init(g), heap |-> trivial.heap, ret |-> <<>>]
        ELSE [raised |-> "none", heap |-> Append(trivial.heap, g),
              ret |-> <<Len(trivial.heap) + 1>>]

\* the order of the TooType values
TooTypeRank(too_type) ==
    CASE too_type = "RAPID" -> 1 [] too_type = "STANDARD" -> 2
      [] too_type = "INTERRUPT" -> 3

\* compatible(sub_too_type) inside _check_too_type, too_type being the
\* ToO type of the program
compatible(too_type, sub_too_type) ==
    IF too_type = <<>>
    THEN sub_too_type = <<>>
    ELSE \/ sub_too_type = <<>>
         \/ TooTypeRank(sub_too_type[1]) <= TooTypeRank(too_type[1])

\* process_group(pgroup) inside _check_too_type: obs_too maps each
\* observation to its too_type, and the groups of todo are still to be
\* processed, the first one next
RECURSIVE process_groups(_, _, _, _)
process_groups(too_type, heap, todo, obs_too) ==
    IF todo = <<>>
    THEN [raised |-> "none", obs_too |-> obs_too]
    ELSE LET pgroup == heap[Head(todo)]
         IN  IF IsObservation(pgroup.children)
             THEN LET observation == pgroup.children.obs[1]
                      set == IF obs_too[observation] = <<>>
                             THEN [obs_too EXCEPT ![observation] = too_type]
                             ELSE obs_too
                  IN  IF ~compatible(too_type, too_type)
                      THEN [raised |-> "ValueError", obs_too |-> set]
                      ELSE process_groups(too_type, heap, Tail(todo),
                                          [set EXCEPT ![observation] = too_type])
             ELSE process_groups(too_type, heap,
                                 pgroup.children.groups \o Tail(todo), obs_too)

\* _check_too_type(program_id, too_type, group)
check_too_type(too_type, heap, group, obs_too) ==
    IF too_type = <<"INTERRUPT">>
    THEN [raised |-> "ValueError", obs_too |-> obs_too]
    ELSE process_groups(too_type, heap, <<group>>, obs_too)

\* parse_program(data): header tells whether the semester and the program
\* type can be read from the program id, too_type is the ToO type of the
\* data, and obs_too the ToO types parse_observation gave the observations;
\* ret is <<>> for None and for a call that raises
parse_program(data, header, too_type, obs_too) ==
    LET root_group == parse_and_group(data, <<"root">>, <<>>)
        checked == check_too_type(too_type, root_group.heap, root_group.ret[1], obs_too)
    IN  IF root_group.raised # "none"
        THEN [raised |-> root_group.raised, heap |-> root_group.heap,
              obs_too |-> obs_too, ret |-> <<>>]
        ELSE IF root_group.ret = <<>> \/ ~header
        THEN [raised |-> "none", heap |-> root_group.heap, obs_too |-> obs_too,
              ret |-> <<>>]
        ELSE IF checked.raised # "none"
        THEN [raised |-> checked.raised, heap |-> root_group.heap,
              obs_too |-> checked.obs_too, ret |-> <<>>]
        ELSE [raised |-> "none", heap |-> root_group.heap,
              obs_too |-> checked.obs_too,
              ret |-> <<[root_group |-> root_group.ret[1], too_type |-> too_type]>>]

(***************************************************************************)
(* Calls of the provider.                                                  *)
(***************************************************************************)
\* the observation entries of a group or folder: distinct keys, in order
ObsLists ==
    {<<>>}
    \cup {<<[key |-> k, survives |-> b]>> : k \in ObsKeys, b \in BOOLEAN}
    \cup {<<[key |-> 1, survives |-> a], [key |-> 2, survives |-> b]>> :
            a \in BOOLEAN, b \in BOOLEAN}

\* no organizational folder, or one
FolderLists == {<<>>} \cup {<<l>> : l \in ObsLists}

\* the data of a group with these observation entries and nothing else
LeafData(l) == [groups |-> <<>>, obs |-> l, folders |-> <<>>]

\* the data of a scheduling group: observations only, or one scheduling
\* group inside it
SubgroupData ==
    {LeafData(<<>>), LeafData(<<[key |-> 1, survives |-> TRUE]>>),
     LeafData(<<[key |-> 1, survives |-> FALSE]>>),
     LeafData(<<[key |-> 2, survives |-> TRUE]>>),
     [groups |-> <<LeafData(<<[key |-> 2, survives |-> TRUE]>>)>>,
      obs |-> <<>>, folders |-> <<>>]}

\* the data of a program
ProgramData ==
    {[groups |-> g, obs |-> l, folders |-> f] :
        g \in SeqsUpTo(SubgroupData, MaxSubgroups), l \in ObsLists,
        f \in FolderLists}

\* None and the TooType values
TooTypes == {<<>>, <<"RAPID">>, <<"STANDARD">>, <<"INTERRUPT">>}

\* the ToO types parse_observation gave the observations of a program
ParsedTooTypes ==
    {[o \in Observations |-> <<>>],
     [o \in Observations |-> IF o = "obs1" THEN <<"RAPID">> ELSE <<>>]}

InitProvider ==
    /\ events = EventQueue({0}, {"GN"}).events
    /\ blockage_stack = EventQueue({0}, {"GN"}).blockage_stack
    /\ blockage_end = [i \in {1, 2} |-> <<>>]
    /\ call = NoCall
    /\ groups = <<>>
    /\ gcall = NoGroupCall
    /\ tcall = NoTreeCall
    /\ RankerIdle
    /\ pcall = NoProviderCall

ParseAndGroup(data) ==
    LET r == parse_and_group(data, <<"root">>, <<>>)
    IN  /\ pcall = NoProviderCall
        /\ pcall' = [op |-> "parse_and_group", data |-> data, raised |-> r.raised,
                     heap |-> r.heap, ret |-> r.ret]
        /\ UNCHANGED <<qvars, gvars, tcall, rvars>>

CheckTooType(too_type, heap, group, obs_too) ==
    LET r == check_too_type(too_type, heap, group, obs_too)
    IN  /\ pcall = NoProviderCall
        /\ pcall' = [op |-> "check_too_type", too_type |-> too_type, heap |-> heap,
                     group |-> group, obs_too |-> obs_too, raised |-> r.raised,
                     obs_too_after |-> r.obs_too]
        /\ UNCHANGED <<qvars, gvars, tcall, rvars>>

ParseProgram(data, header, too_type, obs_too) ==
    LET r == parse_program(data, header, too_type, obs_too)
    IN  /\ pcall = NoProviderCall
        /\ pcall' = [op |-> "parse_program", data |-> data, header |-> header,
                     too_type |-> too_type, obs_too |-> obs_too,
                     raised |-> r.raised, heap |-> r.heap,
                     obs_too_after |-> r.obs_too, ret |-> r.ret]
        /\ UNCHANGED <<qvars, gvars, tcall, rvars>>

NextProvider ==
    \/ /\ pcall = NoProviderCall
       /\ \E sequence \in Sequences, mode \in Modes, qa_min \in QaMins :
              \E offset_lag \in 0..Len(sequence) :
                  ParseAtoms(sequence, mode, offset_lag, qa_min)
    \/ /\ pcall = NoProviderCall
       /\ \E data \in ProgramData : ParseAndGroup(data)
    \/ /\ pcall = NoProviderCall
       /\ \E too_type \in TooTypes, obs_too \in [Observations -> TooTypes] :
              CheckTooType(too_type, RankerTree("obs1", "obs2"), 3, obs_too)
    \/ /\ pcall = NoProviderCall
       /\ \E data \in ProgramData, header \in BOOLEAN, too_type \in TooTypes,
             obs_too \in ParsedTooTypes :
              ParseProgram(data, header, too_type, obs_too)
    \/ ProviderReturn

SpecProvider == InitProvider /\ [][NextProvider]_vars

(***************************************************************************)
(* Properties of _metric_slope and of the construction of the ranker.      *)
(***************************************************************************)
\* the threshold the call uses for the program at idx
XbUsed(idx) ==
    IF rcall.band[idx] = 3 THEN rcall.b3min[idx] ELSE band_params[1][rcall.band[idx]].xb

\* m1 * xb ** power + b1 for the program at idx, in hundred-thousandths
SubThresholdAtXb(idx) ==
    LET prm == band_params[1][rcall.band[idx]]
    IN  prm.m1 * Pow(XbUsed(idx), params.power) * Pow(10, 2 - params.power)
        + prm.b1 * 100

\* a call for programs without thesis flag, with a b3min for each program
PlainCall ==
    /\ rcall.op = "metric_slope"
    /\ ~rcall.thesis
    /\ Len(rcall.band) = Len(rcall.completion)
    /\ Len(rcall.b3min) = Len(rcall.band)

\* C21: on a ranker that has its band parameters, the metric at the
\* threshold xb the call uses (the band's xb, or b3min for band 3), which is
\* m2 * xb + b2, equals the sub-threshold value m1 * xb ** power + b1, for
\* every band and for power 1 and 2.
C21_SegmentsMeetAtThreshold ==
    (PlainCall /\ band_params # <<>>) =>
        \A idx \in 1..Len(rcall.band) :
            (rcall.completion[idx] = XbUsed(idx) /\ rcall.completion[idx] < 10) =>
                /\ rcall.raised = "none"
                /\ rcall.ret[1].metric[idx] = SubThresholdAtXb(idx)

\* C22: for completion 0 the call returns metric 0 and slope 0, for every
\* band, when the thesis flag is not set.
C22_ZeroCompletionScoresZero ==
    PlainCall =>
        \A idx \in 1..Len(rcall.band) :
            rcall.completion[idx] = 0 =>
                /\ rcall.raised = "none"
                /\ rcall.ret[1].metric[idx] = 0
                /\ rcall.ret[1].slope[idx] = 0

\* C23: for every completion of at least 1 the call returns the metric
\* m2 + b2 + xc0 of the band, b2 being the intercept of the second segment,
\* and the slope m2.
C23_FullCompletionScoresThePlateau ==
    PlainCall =>
        \A idx \in 1..Len(rcall.band) :
            rcall.completion[idx] >= 10 =>
                /\ rcall.raised = "none"
                /\ LET prm == band_params[1][rcall.band[idx]]
                       b2 == IF params.power = 1
                             THEN XbUsed(idx) * (prm.m1 - prm.m2) * 10
                                  + (prm.xb0 + prm.b1) * 100
                             ELSE (prm.b2 + prm.xb0 + prm.b1) * 100
                   IN  /\ rcall.ret[1].metric[idx] = prm.m2 * 100 + b2 + prm.xc0 * 100
                       /\ rcall.ret[1].slope[idx] = prm.m2 * 100

\* C28: a ranker constructed with a band-parameter map holds that map, one
\* constructed without holds the default parameters, and either has band
\* parameters when _metric_slope reads them.
C28_BandParamsAreDefined ==
    /\ band_params_arg # <<>> => band_params = band_params_arg
    /\ (band_params_arg = <<>> /\ params # <<>>) =>
           band_params = <<default_band_params>>
    /\ rcall.op = "metric_slope" => rcall.raised # "AttributeError"

(***************************************************************************)
(* Properties of the OCS program provider.                                 *)
(***************************************************************************)
\* the total time of the steps from the k-th on, as a timedelta
RECURSIVE StepsTime(_, _)
StepsTime(sequence, k) ==
    IF k > Len(sequence)
    THEN 0
    ELSE timedelta_seconds(sequence[k].total_time) + StepsTime(sequence, k + 1)

\* the exec_time of the atoms from the k-th on
RECURSIVE AtomsExecTime(_, _)
AtomsExecTime(atoms, k) ==
    IF k > Len(atoms) THEN 0 ELSE atoms[k].exec_time + AtomsExecTime(atoms, k + 1)

\* the time of the steps of sequence that f puts in atom a
RECURSIVE StepsTimeIn(_, _, _, _)
StepsTimeIn(sequence, f, a, k) ==
    IF k > Len(sequence)
    THEN 0
    ELSE (IF f[k] = a THEN timedelta_seconds(sequence[k].total_time) ELSE 0)
         + StepsTimeIn(sequence, f, a, k + 1)

SurvivingObs(data) ==
    LET blocks == data.obs \o org_folders_obs_data(data.folders)
    IN  {i \in 1..Len(blocks) : blocks[i].survives}

\* something of data survives: an observation of its own or a scheduling
\* group
RECURSIVE Survives(_)
Survives(data) ==
    \/ SurvivingObs(data) # {}
    \/ \E k \in 1..Len(data.groups) : Survives(data.groups[k])

\* a key of data is both at the top level and in a folder, in this group or
\* in a scheduling group
RECURSIVE RepeatsKey(_)
RepeatsKey(data) ==
    \/ \E i \in 1..Len(data.obs), j \in 1..Len(org_folders_obs_data(data.folders)) :
           data.obs[i].key = org_folders_obs_data(data.folders)[j].key
    \/ \E k \in 1..Len(data.groups) : RepeatsKey(data.groups[k])

\* what C27 says of the groups a call has returned
ReturnedTree ==
    /\ pcall.ret = <<>> <=> ~Survives(pcall.data)
    /\ pcall.ret = <<>> => pcall.heap = <<>>
    /\ pcall.ret # <<>> =>
          LET root == pcall.heap[pcall.ret[1]]
          IN  /\ Len(root.children.groups)
                    = Cardinality(SurvivingObs(pcall.data))
                      + Cardinality({k \in 1..Len(pcall.data.groups) :
                                        Survives(pcall.data.groups[k])})
              /\ \A i \in 1..Len(pcall.heap) :
                    LET g == pcall.heap[i]
                    IN  /\ g.cls = "AndGroup"
                        /\ AndGroupInvariant(g)
                        /\ len(g.children) >= 1
                        /\ IsObservation(g.children) => g.number_to_observe = 1
                        /\ ~IsObservation(g.children) =>
                               /\ g.number_to_observe = Len(g.children.groups)
                               /\ \A k \in 1..Len(g.children.groups) :
                                     g.children.groups[k] < i

C26_GroupsAreAnyOrder ==
    (pcall.op = "parse_program" /\ pcall.ret # <<>>) =>
        \A i \in 1..Len(pcall.heap) :
            /\ pcall.heap[i].cls = "AndGroup"
            /\ ~IsObservation(pcall.heap[i].children) =>
                   pcall.heap[i].group_option = "ANYORDER"

\* the ToO type of an observation is incompatible with the program's: the
\* program has none and the observation has one, or the observation's is
\* more stringent
Incompatible(too_type, sub_too_type) ==
    \/ too_type = <<>> /\ sub_too_type # <<>>
    \/ /\ too_type # <<>>
       /\ sub_too_type # <<>>
       /\ TooTypeRank(sub_too_type[1]) > TooTypeRank(too_type[1])

\* C25: _check_too_type raises ValueError when the ToO type of an
\* observation of the group is incompatible with the program's.
C25_IncompatibleTooTypeRaises ==
    (/\ pcall.op = "check_too_type"
     /\ \E i \in 1..Len(pcall.heap) :
           /\ IsObservation(pcall.heap[i].children)
           /\ Incompatible(pcall.too_type, pcall.obs_too[pcall.heap[i].children.obs[1]]))
        => pcall.raised = "ValueError"

====
